---- MODULE Spec2Model ----
(***************************************************************************)
(* A state-machine model of the harvest pipeline of the repository:        *)
(*   - ImagePipeline (src/src/storage/image_pipeline.py): the concurrent   *)
(*     media fetch stage, specification SpecFetch;                         *)
(*   - ProjectRepository (src/src/storage/project_repository.py) on a      *)
(*     document collection, specification SpecRepo;                        *)
(*   - the per-item loops of CronScraper.scrape_behance (cron_scraper.py)  *)
(*     and of BehanceScraper (scripts/scrape_behance.py), specification    *)
(*     SpecBehance; the media fetch inside an item is the subject of       *)
(*     SpecFetch and appears there only by its success count;              *)
(*   - one run of CronScraper.scrape_behance with its items counted by how *)
(*     they ended, specification SpecTally;                                *)
(*   - BehanceScraper.scrape_project, the processing of one item, step by  *)
(*     step, specification SpecProject;                                    *)
(*   - the strategies of PinterestAuthenticator                            *)
(*     (src/auth/pinterest_auth.py), each call on its own, specification   *)
(*     SpecAuth;                                                           *)
(*   - the authentication coordinator and the board loop of                *)
(*     PinterestScraper.scrape_profile (scrape_pinterest_images.py) and of *)
(*     CronScraper.scrape_pinterest, specification SpecPinterest;          *)
(*   - login_with_google at the Google sign-in form, selector by selector, *)
(*     specification SpecGoogle;                                           *)
(*   - main of the three scripts, from the start of the process to its     *)
(*     exit status, specification SpecMain;                                *)
(*   - the scroll loops of the extractors (src/extractors/search.py,       *)
(*     src/extractors/pinterest.py), specification SpecScroll.             *)
(* Every specification leaves the variables of the other parts unchanged.  *)
(***************************************************************************)
EXTENDS Integers, Sequences, FiniteSets, TLC

VARIABLES
    \* ---- ImagePipeline ----
    output_dir,     \* ImagePipeline.output_dir
    urls,           \* the argument of the download_many call in progress
    phase,          \* "idle" | "running" | "returned" | "raised"
    task,           \* one download_image coroutine per input reference
    order,          \* the indices of the coroutines in completion order
    returned,       \* the list download_many returned
    files,          \* the local filesystem: path -> content
    fetch_log,      \* every successful fetch: [url, dir, path]
    \* ---- document store ----
    projects,       \* collection "projects": the documents in insertion order
    repo_hist,      \* the last two ProjectRepository operations applied
    repo_before,    \* collection "projects" as it was before the last operation
    images,         \* collection "images": the documents in insertion order
    \* ---- CronScraper.scrape_behance and BehanceScraper ----
    program,        \* the script this process runs: "cron_scraper" |
                    \* "scrape_behance" | "scrape_pinterest_images"
    run,            \* the entry point running: "none" | "cron" | "behance"
    last,           \* how the last run ended: "none" | "returned" | "raised"
    targets,        \* CronScraper: search URLs of config['urls'] not yet started
    project_links,  \* the listing of the current target, cut to max_projects
    idx,            \* position of the next item of project_links
    processed_projects,  \* BehanceScraper.processed_projects
    count,          \* BehanceScraper.scrape_*: count
    stats,          \* CronScraper.scrape_behance: stats
    item_log,       \* what happened to each item of project_links so far
    processed_at_start,  \* processed_projects when the current call started
    faults,         \* faults raised in this run (per item and per target)
    rest,           \* the links of the listing that the cut to max_projects left out
    scene,          \* the items of this run that were collected with one media
                    \* file fetched, and whether anything else but a failed
                    \* extraction happened
    \* ---- PinterestScraper.scrape_profile and CronScraper.scrape_pinterest ----
    cookies_path,   \* configuration: a cookies path is given
    credentials,    \* configuration: email and password are given
    cookie_file,    \* the file at cookies_path: "missing" | "valid" | "expired"
    pc,             \* the position of the run: "idle" | "cookies" | "google" |
                    \* "login" | "save" | "check" | "profile" | "boards"
    logged_in,      \* the local logged_in
    attempts,       \* the strategies attempted in this run, with their results
    pinterest_profiles,  \* collection "pinterest_profiles"
    pinterest_boards,    \* collection "pinterest_boards"
    pinterest_pins,      \* collection "pinterest_pins"
    boards,         \* the boards extracted in this run
    bidx,           \* position of the next board of boards
    processed_boards,    \* PinterestScraper.processed_boards
    pinterest_stats,     \* scrape_profile, scrape_pinterest: stats
    saves,          \* calls of save_cookies in this run
    warnings,       \* "not logged in" warnings of this run
    outcome,        \* how the last run ended: "none" | "completed" | "failed"
    board_log,      \* what happened to each board of boards so far
    \* ---- PinterestAuthenticator ----
    auth_call,      \* the last call of a strategy: its run and how it ended
    form,           \* login_with_google at the Google sign-in form: its position,
                    \* the selector to try next and what it has done so far
    \* ---- BehanceScraper.scrape_project ----
    item_call,      \* the call in progress: its position, its locals and the
                    \* steps it has completed
    tally,          \* CronScraper.scrape_behance: the items of this run whose
                    \* step has ended, by how it ended
    \* ---- the entry points (main) ----
    proc,           \* the process: its script, its position, what it has
                    \* started, finished and printed, and its exit status
    \* ---- scroll_to_load_more and _scroll_to_load ----
    scroller        \* the scroll loop: its caller, its position and the
                    \* advances it has issued

fetchVars == <<output_dir, urls, phase, task, order, returned, files, fetch_log>>

repoVars == <<projects, repo_hist, repo_before>>

behanceVars == <<images, program, run, last, targets, project_links, idx, processed_projects,
                 count, stats, item_log, processed_at_start, faults, rest, scene>>

pinterestVars == <<cookies_path, credentials, cookie_file, pc, logged_in, attempts,
                   pinterest_profiles, pinterest_boards, pinterest_pins, boards, bidx,
                   processed_boards, pinterest_stats, saves, warnings, outcome, board_log>>

authVars == <<auth_call, form>>

itemVars == <<item_call, tally>>

runVars == <<proc, scroller>>

vars == <<fetchVars, repoVars, behanceVars, pinterestVars, authVars, itemVars, runVars>>

\* ------------------------------------------------------------------ bounds

\* Longest list of references handed to one download_many call.
MaxUrls == 2
\* Most documents the collection "projects" holds in SpecRepo.
MaxDocs == 3
\* Most anchors of one rendered listing page.
MaxLinks == 2
\* Most documents the collection "images" holds in SpecBehance.
MaxImageDocs == 3

\* Longest list of boards a profile page shows.
MaxBoards == 2

\* Most documents collection "pinterest_boards" holds.
MaxBoardDocs == 2

\* Most documents collection "pinterest_pins" holds.
MaxPinDocs == 2

\* ------------------------------------------------------------ ImagePipeline

None == "None"
NoPath == <<>>

\* Image URLs: a path stem, the path's suffix ("" when the path has none) and
\* a query string (0: none).
Urls == {[stem |-> 1, suffix |-> "", query |-> 0],
         [stem |-> 1, suffix |-> ".png", query |-> 1]}

\* The directories the orchestrators assign to ImagePipeline.output_dir: the
\* configured output directory joined with the item's own directory name.
OutputDirs == {<<"behance_images", "1">>, <<"behance_images", "2">>}

SeqsUpTo(S, n) == UNION {[1..k -> S] : k \in 0..n}

\* hashlib.md5(url.encode()).hexdigest(): a digest of the whole URL string,
\* query included; distinct URLs of Urls have distinct digests.
SuffixCode(s) == IF s = "" THEN 0 ELSE 1
Md5(url) == url.stem * 4 + SuffixCode(url.suffix) * 2 + url.query

\* ImagePipeline.generate_filename
generate_filename(url) ==
    LET extension == IF url.suffix = "" THEN ".jpg" ELSE url.suffix
    IN  <<Md5(url), extension>>

\* A naming that never overwrites: the file name also counts the files
\* already stored.
local_path_unique(dir, url) ==
    <<dir, <<Md5(url) + 8 * Cardinality(DOMAIN files), generate_filename(url)[2]>>>>

\* A path under the configured output directory itself, whatever directory
\* was assigned for the item.
local_path_in_root(dir, url) == <<<<dir[1]>>, generate_filename(url)>>

\* download_image: local_path = str(Path(self.output_dir) / filename)
local_path_of(dir, url) == <<dir, generate_filename(url)>>

\* How a coroutine ends: it returns a value or raises an exception.
Returns(v) == [exc |-> None, value |-> v]
Raises(e) == [exc |-> e, value |-> <<>>]
NotEnded == [exc |-> None, value |-> <<>>]

\* ImageDownloadResult
ImageDownloadResult(success, url, path, error_message) ==
    [success |-> success, url |-> url, local_path |-> path, error_message |-> error_message]

\* A download_image without its except clause: the fault leaves the coroutine.
download_image_propagates(url, fault) == Raises(fault)

\* The except clause of download_image: any fault of the body becomes a
\* failed result carrying str(e).
download_image_except(url, fault) ==
    Returns(ImageDownloadResult(FALSE, url, NoPath, fault))

\* A successful result that leaves out where the file is.
download_image_no_path(url, path) == Returns(ImageDownloadResult(TRUE, url, NoPath, None))

\* return ImageDownloadResult(success=True, url=url, local_path=local_path)
download_image_return(url, path) == Returns(ImageDownloadResult(TRUE, url, path, None))

\* The results in the order in which the coroutines completed.
gather_as_completed(res, ord) == [i \in 1..Len(res) |-> res[ord[i]]]

\* asyncio.gather(*tasks): the results in the order of the awaitables given,
\* whatever the order ord in which they completed.
gather(res, ord) == [i \in 1..Len(res) |-> res[i]]

\* A download_many that returns with the first coroutine that completes.
FirstDone == \E i \in 1..Len(urls) : task[i].pc = "done"

\* await asyncio.gather(*tasks) resumes when every coroutine has completed.
AllDone == \A i \in 1..Len(urls) : task[i].pc = "done"

\* The orchestrator assigns the item's directory to the shared pipeline and
\* calls download_many(urls).  gather starts one download_image coroutine per
\* reference, in list order; each runs without suspension through
\* ensure_output_dir, generate_filename and the path under the output_dir of
\* that moment, up to its request client.get(url).
DownloadManyCall(dir, us) ==
    /\ phase \in {"idle", "returned"}
    /\ output_dir' = dir
    /\ urls' = us
    /\ phase' = "running"
    /\ task' = [i \in 1..Len(us) |->
                   [pc |-> "requesting", path |-> local_path_of(dir, us[i]),
                    requests |-> 0, fault |-> None, overwrote |-> FALSE,
                    result |-> NotEnded]]
    /\ order' = <<>>
    /\ returned' = <<>>
    /\ UNCHANGED <<files, fetch_log>>

\* A download_image that sends its request a second time when the first
\* one failed.
fetch_again(t, url, r) ==
    IF t.requests = 0
    THEN [t EXCEPT !.requests = @ + 1]
    ELSE [t EXCEPT !.pc = "done", !.requests = @ + 1, !.fault = r,
                   !.result = download_image_except(url, r)]

\* The request of the coroutine t has failed with r: the fault leaves both
\* try blocks for the except clause, and the coroutine is over.
failed_fetch(t, url, r) ==
    [t EXCEPT !.pc = "done", !.requests = @ + 1, !.fault = r,
              !.result = download_image_except(url, r)]

\* A download_image that opens its file for writing before it sends the
\* request: the file is there, and empty, whatever the response.
opened_before_request(fs, path) ==
    [p \in DOMAIN fs \cup {path} |-> IF p = path THEN <<>> ELSE fs[p]]

\* aiofiles.open(local_path, 'wb') comes after raise_for_status: a fault of
\* the request or of the status leaves the files as they are.
opened_after_response(fs, path) == fs

\* client.get(url) and response.raise_for_status(): a network error or a
\* non-success status goes to the except clause before the file is opened.
DownloadImageResponse(i, r) ==
    /\ phase = "running"
    /\ task[i].pc = "requesting"
    /\ LET t == IF r = "ok"
                THEN [task[i] EXCEPT !.pc = "saving", !.requests = @ + 1]
                ELSE failed_fetch(task[i], urls[i], r)
       IN  /\ task' = [task EXCEPT ![i] = t]
           /\ order' = IF t.pc = "done" THEN Append(order, i) ELSE order
    /\ files' = IF r = "ok" THEN files ELSE opened_after_response(files, task[i].path)
    /\ UNCHANGED <<output_dir, urls, phase, returned, fetch_log>>

\* aiofiles.open(local_path, 'wb'), write(response.content), close and the
\* successful result; or open raises OSError, which goes to the except clause
\* with the filesystem as it was.
DownloadImageSave(i, opened) ==
    /\ phase = "running"
    /\ task[i].pc = "saving"
    /\ order' = Append(order, i)
    /\ IF opened
       THEN /\ task' = [task EXCEPT ![i].pc = "done",
                           ![i].overwrote = (task[i].path \in DOMAIN files),
                           ![i].result = download_image_return(urls[i], task[i].path)]
            /\ files' = [p \in DOMAIN files \cup {task[i].path} |->
                            IF p = task[i].path THEN <<urls[i]>> ELSE files[p]]
            /\ fetch_log' = fetch_log \cup
                   {[url |-> urls[i], dir |-> task[i].path[1], path |-> task[i].path]}
       ELSE /\ task' = [task EXCEPT ![i].pc = "done", ![i].fault = "OSError",
                           ![i].result = download_image_except(urls[i], "OSError")]
            /\ UNCHANGED <<files, fetch_log>>
    /\ UNCHANGED <<output_dir, urls, phase, returned>>

\* results = await asyncio.gather(*tasks); return list(results).  gather
\* re-raises the exception of a coroutine that raised.
DownloadManyReturn ==
    /\ phase = "running"
    /\ AllDone
    /\ LET raised == \E i \in 1..Len(urls) : task[i].result.exc # None
       IN  /\ phase' = IF raised THEN "raised" ELSE "returned"
           /\ returned' = IF raised THEN <<>>
                          ELSE gather([i \in 1..Len(urls) |-> task[i].result.value], order)
    /\ UNCHANGED <<output_dir, urls, task, order, files, fetch_log>>

Responses == {"ok", "ConnectError", "HTTPStatusError"}

InitBehanceState ==
    /\ images = <<>>
    /\ run = "none"
    /\ last = "none"
    /\ targets = 0
    /\ project_links = <<>>
    /\ idx = 1
    /\ processed_projects = {}
    /\ count = 0
    /\ stats = [projects_scraped |-> 0, images_downloaded |-> 0, errors |-> 0]
    /\ item_log = <<>>
    /\ processed_at_start = {}
    /\ faults = 0
    /\ rest = <<>>
    /\ scene = [good |-> 0, off |-> FALSE]

InitBehanceIdle ==
    /\ program = "none"
    /\ InitBehanceState

InitPinterestState ==
    /\ cookie_file = "missing"
    /\ pc = "idle"
    /\ logged_in = FALSE
    /\ attempts = <<>>
    /\ pinterest_profiles = <<>>
    /\ pinterest_boards = <<>>
    /\ pinterest_pins = <<>>
    /\ boards = <<>>
    /\ bidx = 1
    /\ processed_boards = {}
    /\ pinterest_stats = [boards_scraped |-> 0, pins_scraped |-> 0,
                          images_downloaded |-> 0, errors |-> 0]
    /\ saves = 0
    /\ warnings = 0
    /\ outcome = "none"
    /\ board_log = <<>>

InitPinterestIdle ==
    /\ cookies_path = FALSE
    /\ credentials = FALSE
    /\ InitPinterestState

NoForm == [pc |-> "button", sel |-> 1, trace |-> <<>>, button |-> "untried",
           provider |-> FALSE, pages |-> 1, surface |-> "none"]

InitAuthIdle ==
    /\ auth_call = [strategy |-> "none", env |-> [stop |-> "none"], outcome |-> NotEnded]
    /\ form = NoForm

NoCall == [pc |-> "idle", url |-> [gallery |-> 0, query |-> 0], title |-> "",
           imgs |-> <<>>, done |-> <<>>]

NoTally == [items |-> 0, item_faults |-> 0, empty |-> 0, writes |-> 0]

InitItemIdle ==
    /\ item_call = NoCall
    /\ tally = NoTally

NoProc == [program |-> "none", pc |-> "exited", stage |-> 0, results |-> <<>>,
           started |-> 0, finished |-> 0, errors |-> 0, setup_fault |-> FALSE,
           interrupted |-> FALSE, reported |-> FALSE, status |-> 0,
           open |-> {}, left_open |-> {}]

NoScroll == [pc |-> "idle", caller |-> "none", scroll_count |-> 0, i |-> 0,
             advances |-> 0, clicks |-> 0, first |-> 0, items |-> 0, grew |-> FALSE]

InitRunIdle ==
    /\ proc = NoProc
    /\ scroller = NoScroll

InitRepoIdle ==
    /\ projects = <<>>
    /\ repo_hist = <<>>
    /\ repo_before = <<>>

InitFetchIdle ==
    /\ output_dir = <<"behance_images">>
    /\ urls = <<>>
    /\ phase = "idle"
    /\ task = <<>>
    /\ order = <<>>
    /\ returned = <<>>
    /\ files = <<>>
    /\ fetch_log = {}

InitFetch ==
    /\ InitAuthIdle
    /\ InitItemIdle
    /\ InitRunIdle
    /\ InitFetchIdle
    /\ InitRepoIdle
    /\ InitBehanceIdle
    /\ InitPinterestIdle

NextFetch ==
    \/ \E dir \in OutputDirs, us \in SeqsUpTo(Urls, MaxUrls) : DownloadManyCall(dir, us)
    \/ \E i \in 1..Len(urls), r \in Responses : DownloadImageResponse(i, r)
    \/ \E i \in 1..Len(urls), opened \in BOOLEAN : DownloadImageSave(i, opened)
    \/ DownloadManyReturn

NextFetchFramed ==
    NextFetch /\ UNCHANGED <<repoVars, behanceVars, pinterestVars, authVars, itemVars, runVars>>

SpecFetch == InitFetch /\ [][NextFetchFramed]_vars

\* ------------------------------------------------------- document store

\* Project.model_dump() with url converted to str: the natural key id and the
\* remaining fields of the record, which title stands for.
ProjectIds == {1, 2}
Titles == {"a", "b"}
Projects == [id : ProjectIds, title : Titles]

model_dump(project) == [id |-> project.id, title |-> project.title]

\* Positions of the documents of collection coll that match {field: value}.
Matching(coll, field, value) ==
    {i \in 1..Len(coll) : field \in DOMAIN coll[i] /\ coll[i][field] = value}

Min(S) == CHOOSE x \in S : \A y \in S : x <= y

\* An update that writes only the fields the document does not have yet.
ApplySetOnInsert(doc, d) ==
    [f \in DOMAIN doc \cup DOMAIN d |-> IF f \in DOMAIN doc THEN doc[f] ELSE d[f]]

\* {"$set": d} applied to one document: the fields of d are written, the
\* document's other fields stay.
ApplySet(doc, d) ==
    [f \in DOMAIN doc \cup DOMAIN d |-> IF f \in DOMAIN d THEN d[f] ELSE doc[f]]

\* collection.insert_one(d)
insert_one(coll, d) == Append(coll, d)

\* collection.update_one({field: value}, {"$set": d}, upsert=...): the first
\* matching document is updated; with none matching and upsert=True a document
\* made of the filter and d is inserted.
update_one(coll, field, value, d, upsert) ==
    LET m == Matching(coll, field, value)
    IN  IF m # {}
        THEN [coll EXCEPT ![Min(m)] = ApplySet(@, d)]
        ELSE IF upsert
             THEN Append(coll, ApplySet((field :> value), d))
             ELSE coll

\* collection.delete_one({field: value}): the first matching document goes.
delete_one(coll, field, value) ==
    LET m == Matching(coll, field, value)
    IN  IF m = {} THEN coll
        ELSE [i \in 1..(Len(coll) - 1) |-> IF i < Min(m) THEN coll[i] ELSE coll[i + 1]]

\* An upsert written as a plain insert.
upsert_as_insert(coll, project) == insert_one(coll, model_dump(project))

\* ProjectRepository.upsert
upsert(coll, project) == update_one(coll, "id", project.id, model_dump(project), TRUE)

\* ProjectRepository.save
save(coll, project) == insert_one(coll, model_dump(project))

\* ProjectRepository.update
update(coll, project) == update_one(coll, "id", project.id, model_dump(project), FALSE)

\* ProjectRepository.delete
delete(coll, project_id) == delete_one(coll, "id", project_id)

Record(op) ==
    /\ repo_hist' = IF Len(repo_hist) < 2 THEN Append(repo_hist, op)
                    ELSE <<repo_hist[2], op>>
    /\ repo_before' = projects

RepoUpsert(project) ==
    /\ Len(upsert(projects, project)) <= MaxDocs
    /\ projects' = upsert(projects, project)
    /\ Record(<<"upsert", project>>)

RepoSave(project) ==
    /\ Len(projects) < MaxDocs
    /\ projects' = save(projects, project)
    /\ Record(<<"save", project>>)

RepoUpdate(project) ==
    /\ projects' = update(projects, project)
    /\ Record(<<"update", project>>)

RepoDelete(project_id) ==
    /\ projects' = delete(projects, project_id)
    /\ Record(<<"delete", [id |-> project_id, title |-> "a"]>>)

InitRepo ==
    /\ InitAuthIdle
    /\ InitItemIdle
    /\ InitRunIdle
    /\ InitRepoIdle
    /\ InitFetchIdle
    /\ InitBehanceIdle
    /\ InitPinterestIdle

NextRepo ==
    \/ \E project \in Projects : RepoUpsert(project)
    \/ \E project \in Projects : RepoSave(project)
    \/ \E project \in Projects : RepoUpdate(project)
    \/ \E project_id \in ProjectIds : RepoDelete(project_id)

NextRepoFramed ==
    NextRepo /\ UNCHANGED <<fetchVars, behanceVars, pinterestVars, authVars, itemVars, runVars>>

SpecRepo == InitRepo /\ [][NextRepoFramed]_vars

\* ------------------------- CronScraper.scrape_behance and BehanceScraper

\* The anchors of a rendered listing: relative or absolute, to gallery 1 or 2
\* (gallery 0: not a project link), with a query string (1) or none (0).
Hrefs == {[rel |-> TRUE, gallery |-> 1, query |-> 0],
          [rel |-> FALSE, gallery |-> 1, query |-> 1],
          [rel |-> FALSE, gallery |-> 2, query |-> 0],
          [rel |-> FALSE, gallery |-> 0, query |-> 0]}

\* full_url = f"https://www.behance.net{href}" if relative, else href
full_url(href) == [gallery |-> href.gallery, query |-> href.query]

\* base_url = full_url.split('?')[0]
base_url(url) == [url EXCEPT !.query = 0]

\* SearchExtractor.extract_project_links: the first anchor of each base URL
\* that is a gallery link, kept as its full URL, in document order.
RECURSIVE ExtractLinks(_, _, _)
ExtractLinks(hrefs, seen_urls, links) ==
    IF hrefs = <<>> THEN links
    ELSE LET full == full_url(Head(hrefs))
             base == base_url(full)
         IN  IF base \notin seen_urls /\ base.gallery # 0
             THEN ExtractLinks(Tail(hrefs), seen_urls \cup {base}, Append(links, full))
             ELSE ExtractLinks(Tail(hrefs), seen_urls, links)

extract_project_links(hrefs) == ExtractLinks(hrefs, {}, <<>>)

\* project_links[:max_projects]
Take(seq, n) == SubSeq(seq, 1, IF n < Len(seq) THEN n ELSE Len(seq))

\* project_links[max_projects:], which the code drops
Drop(seq, n) == SubSeq(seq, (IF n < Len(seq) THEN n ELSE Len(seq)) + 1, Len(seq))

\* config['behance']['urls'] has two search URLs; config max_projects.
CronUrls == 2
CronMaxProjects == 5

\* ProjectExtractor.extract_from_page on the page of url: the project's id is
\* the gallery's; the other fields are what the page shows at that visit.
project_of(url, title) == [id |-> url.gallery, title |-> title]

\* ImageExtractor.extract_from_page: the page shows no image, or one.
ImageLists == {<<>>, <<[stem |-> 1, suffix |-> ".png", query |-> 1]>>}

\* Image.model_dump() with url converted to str.
image_dump(url, project_id) == [url |-> url, project_id |-> project_id]

\* collection.insert_many(docs)
insert_many(coll, docs) == coll \o docs

\* ImageRepository.save_many
save_many(coll, imgs, project_id) ==
    insert_many(coll, [i \in 1..Len(imgs) |-> image_dump(imgs[i], project_id)])

\* The awaited steps of one item's processing that may raise; download_many
\* never raises.
ItemFaults == {"none", "goto", "extract", "upsert", "images", "save_many"}

\* The writes of one item's processing up to the step that raised:
\* project_repo.upsert(project), then image_repo.save_many(images) if images.
ProjectsAfterItem(url, title, fault) ==
    IF fault \in {"none", "images", "save_many"}
    THEN upsert(projects, project_of(url, title))
    ELSE projects

ImagesAfterItem(url, imgs, fault) ==
    IF fault = "none" /\ imgs # <<>>
    THEN save_many(images, imgs, url.gallery)
    ELSE images

\* A loop that stops at the first item fault.
except_break(i, n) == n + 1

\* The except clause of the per-item loop ends with continue: the loop goes
\* on with the next item.
except_continue(i, n) == i + 1

\* stats['errors'] += 1
count_error(st) == [st EXCEPT !.errors = @ + 1]

\* Stats that count the media files only.
count_media_only(st, success_count) == [st EXCEPT !.images_downloaded = @ + success_count]

\* stats['projects_scraped'] += 1; stats['images_downloaded'] += success_count
count_item(st, success_count) ==
    [st EXCEPT !.projects_scraped = @ + 1, !.images_downloaded = @ + success_count]

\* Stats left over from an earlier run.
StatsLeftOver == [projects_scraped |-> 1, images_downloaded |-> 0, errors |-> 0]

ZeroStats == [projects_scraped |-> 0, images_downloaded |-> 0, errors |-> 0]

LoopDone == idx > Len(project_links)

\* A loop that takes the links from the end of the list.
item_from_end(links, i) == links[Len(links) + 1 - i]

\* for i, project_url in enumerate(project_links, 1): the i-th link
item_at(links, i) == links[i]

\* A scrape_behance that gives up its remaining search URLs at a fault.
abort_targets(t) == 0

\* The continue of the except clause of the loop over config['urls']: on
\* with the next search URL.
next_target(t) == t - 1

\* A loop that records the link as processed whether its step raised or not.
processed_always(seen, url, fault) == seen \cup {url}

\* self.processed_projects.add(project_url) follows the awaited
\* scrape_project inside the try block: a fault skips it.
processed_after(seen, url, fault) == IF fault = "none" THEN seen \cup {url} ELSE seen

\* The steps of an item that extract: the navigation and the two extractors.
ExtractionFaults == {"goto", "extract", "images"}

NoScene == [good |-> 0, off |-> FALSE]
OffScene == [good |-> 0, off |-> TRUE]

\* The record of the scenario after one item.
SceneAfterItem(sc, imgs, ok, fault) ==
    IF sc.off THEN sc
    ELSE IF fault \in ExtractionFaults THEN sc
    ELSE IF fault = "none" /\ Len(imgs) = 1 /\ ok = 1 THEN [sc EXCEPT !.good = @ + 1]
    ELSE OffScene

\* CronScraper.scrape_behance up to the loop over config['urls'].
CronStart ==
    /\ program = "cron_scraper"
    /\ run = "none"
    /\ run' = "cron"
    /\ last' = "none"
    /\ targets' = CronUrls
    /\ project_links' = <<>>
    /\ idx' = 1
    /\ stats' = ZeroStats
    /\ item_log' = <<>>
    /\ faults' = 0
    /\ scene' = NoScene
    /\ UNCHANGED <<images, projects, processed_projects, count, processed_at_start, rest>>

\* The next search URL: search_projects and the cut to max_projects, or a
\* fault of the search, which the outer except clause counts.
CronSearch(hrefs, fault) ==
    /\ run = "cron"
    /\ LoopDone
    /\ targets > 0
    /\ idx' = 1
    /\ item_log' = <<>>
    /\ IF fault
       THEN /\ targets' = next_target(targets)
            /\ project_links' = <<>>
            /\ stats' = count_error(stats)
            /\ faults' = faults + 1
            /\ scene' = OffScene
       ELSE /\ targets' = targets - 1
            /\ project_links' = Take(extract_project_links(hrefs), CronMaxProjects)
            /\ UNCHANGED <<stats, faults, scene>>
    /\ UNCHANGED <<images, projects, run, last, processed_projects, count, processed_at_start,
                   rest>>

\* One iteration of the per-item loop of scrape_behance.
CronItem(title, imgs, ok, fault) ==
    /\ run = "cron"
    /\ ~LoopDone
    /\ ok \in 0..Len(imgs)
    /\ LET url == item_at(project_links, idx)
       IN  /\ projects' = ProjectsAfterItem(url, title, fault)
           /\ images' = ImagesAfterItem(url, imgs, fault)
           /\ Len(images') <= MaxImageDocs
    /\ IF fault = "none"
       THEN /\ stats' = IF imgs # <<>> THEN count_item(stats, ok) ELSE stats
            /\ idx' = idx + 1
            /\ item_log' = Append(item_log, "ok")
            /\ faults' = faults
       ELSE /\ stats' = count_error(stats)
            /\ idx' = except_continue(idx, Len(project_links))
            /\ item_log' = Append(item_log, "fault")
            /\ faults' = faults + 1
    /\ scene' = SceneAfterItem(scene, imgs, ok, fault)
    /\ UNCHANGED <<run, last, targets, project_links, processed_projects, count,
                   processed_at_start, rest>>

\* The loops are over: pages closed, browser and store released, return stats;
\* the stats dict is a local of the call.
CronReturn ==
    /\ run = "cron"
    /\ LoopDone
    /\ targets = 0
    /\ run' = "none"
    /\ last' = "returned"
    /\ project_links' = <<>>
    /\ idx' = 1
    /\ item_log' = <<>>
    /\ stats' = ZeroStats
    /\ faults' = 0
    /\ scene' = NoScene
    /\ UNCHANGED <<images, projects, targets, processed_projects, count, processed_at_start,
                   rest>>

\* BehanceScraper.scrape_search (scrape_user and scrape_trending have the same
\* loop) up to the per-item loop: the listing and the cut to max_projects; a
\* fault of the listing leaves the call through its finally clause.
ScrapeCall(hrefs, max_projects, fault) ==
    /\ program = "scrape_behance"
    /\ run = "none"
    /\ item_log' = <<>>
    /\ idx' = 1
    /\ faults' = 0
    /\ IF fault
       THEN /\ last' = "raised"
            /\ UNCHANGED <<run, project_links, count, processed_at_start, rest>>
       ELSE /\ run' = "behance"
            /\ last' = "none"
            /\ project_links' = Take(extract_project_links(hrefs), max_projects)
            /\ rest' = Drop(extract_project_links(hrefs), max_projects)
            /\ count' = 0
            /\ processed_at_start' = processed_projects
    /\ UNCHANGED <<images, projects, targets, processed_projects, stats, scene>>

\* One iteration of the per-item loop of scrape_search: skip a URL that is in
\* processed_projects, else scrape_project, and on its return add the URL to
\* processed_projects and count it.
ScrapeItem(title, imgs, fault) ==
    /\ run = "behance"
    /\ ~LoopDone
    /\ LET url == item_at(project_links, idx)
       IN  IF url \in processed_projects
           THEN /\ idx' = idx + 1
                /\ item_log' = Append(item_log, "skipped")
                /\ UNCHANGED <<images, projects, processed_projects, count, faults>>
           ELSE /\ projects' = ProjectsAfterItem(url, title, fault)
                /\ images' = ImagesAfterItem(url, imgs, fault)
                /\ Len(images') <= MaxImageDocs
                /\ processed_projects' = processed_after(processed_projects, url, fault)
                /\ IF fault = "none"
                   THEN /\ count' = count + 1
                        /\ idx' = idx + 1
                        /\ item_log' = Append(item_log, "ok")
                        /\ faults' = faults
                   ELSE /\ idx' = except_continue(idx, Len(project_links))
                        /\ item_log' = Append(item_log, "fault")
                        /\ faults' = faults + 1
                        /\ UNCHANGED count
    /\ UNCHANGED <<run, last, targets, project_links, stats, processed_at_start, rest,
                   scene>>

\* The loop is over: return count; the finally clause closes the page; count
\* is a local of the call.
ScrapeReturn ==
    /\ run = "behance"
    /\ LoopDone
    /\ run' = "none"
    /\ last' = "returned"
    /\ project_links' = <<>>
    /\ idx' = 1
    /\ item_log' = <<>>
    /\ count' = 0
    /\ faults' = 0
    /\ processed_at_start' = {}
    /\ rest' = <<>>
    /\ UNCHANGED <<images, projects, targets, processed_projects, stats, scene>>

InitBehance ==
    /\ program \in {"cron_scraper", "scrape_behance"}
    /\ InitBehanceState
    /\ InitRepoIdle
    /\ InitFetchIdle
    /\ InitPinterestIdle
    /\ InitAuthIdle
    /\ InitItemIdle
    /\ InitRunIdle

NextBehance ==
    \/ CronStart
    \/ \E hrefs \in SeqsUpTo(Hrefs, MaxLinks), fault \in BOOLEAN : CronSearch(hrefs, fault)
    \/ \E title \in Titles, imgs \in ImageLists, ok \in 0..1, fault \in ItemFaults :
          CronItem(title, imgs, ok, fault)
    \/ CronReturn
    \/ \E hrefs \in SeqsUpTo(Hrefs, MaxLinks), max_projects \in 1..MaxLinks, fault \in BOOLEAN :
          ScrapeCall(hrefs, max_projects, fault)
    \/ \E title \in Titles, imgs \in ImageLists, fault \in ItemFaults :
          ScrapeItem(title, imgs, fault)
    \/ ScrapeReturn

NextBehanceFramed ==
    NextBehance /\ UNCHANGED <<fetchVars, repo_hist, repo_before, program, pinterestVars,
                              authVars, itemVars, runVars>>

SpecBehance == InitBehance /\ [][NextBehanceFramed]_vars

\* --------------------------- the items of one run of scrape_behance, counted

\* One run of CronScraper.scrape_behance as in SpecBehance, with a count of
\* the items of the run next to it: the items whose step has ended, those that raised,
\* those that ended without a fault on a page without images, and those that
\* had their record written.

Bit(b) == IF b THEN 1 ELSE 0

TallyAfterItem(t, imgs, fault) ==
    [t EXCEPT !.items = @ + 1,
              !.item_faults = @ + Bit(fault # "none"),
              !.empty = @ + Bit(fault = "none" /\ imgs = <<>>),
              !.writes = @ + Bit(fault \in {"none", "images", "save_many"})]

\* The first run of the process.
TallyStart == CronStart /\ last = "none" /\ tally' = NoTally

TallySearch(hrefs, fault) == CronSearch(hrefs, fault) /\ tally' = tally

TallyItem(title, imgs, ok, fault) ==
    CronItem(title, imgs, ok, fault) /\ tally' = TallyAfterItem(tally, imgs, fault)

TallyReturn == CronReturn /\ tally' = NoTally

InitTally ==
    /\ program = "cron_scraper"
    /\ InitBehanceState
    /\ InitRepoIdle
    /\ InitFetchIdle
    /\ InitPinterestIdle
    /\ InitAuthIdle
    /\ InitItemIdle
    /\ InitRunIdle

NextTally ==
    \/ TallyStart
    \/ \E hrefs \in SeqsUpTo(Hrefs, MaxLinks), fault \in BOOLEAN : TallySearch(hrefs, fault)
    \/ \E title \in Titles, imgs \in ImageLists, ok \in 0..1, fault \in ItemFaults :
          TallyItem(title, imgs, ok, fault)
    \/ TallyReturn

NextTallyFramed ==
    NextTally /\ UNCHANGED <<fetchVars, repo_hist, repo_before, program, pinterestVars,
                             authVars, item_call, runVars>>

SpecTally == InitTally /\ [][NextTallyFramed]_vars

\* ---------------------------------------- BehanceScraper.scrape_project

\* The URLs scrape_project is called with: the links of a listing.
ProjectUrls == {full_url(h) : h \in {x \in Hrefs : x.gallery # 0}}

\* A scrape_project that fetches the media before it writes to the store.
step_after_fetch_first(s, imgs) ==
    CASE s = "goto" -> "extract"
      [] s = "extract" -> "images"
      [] s = "images" -> IF imgs # <<>> THEN "download_many" ELSE "upsert"
      [] s = "download_many" -> "upsert"
      [] s = "upsert" -> IF imgs # <<>> THEN "save_many" ELSE "returned"
      [] s = "save_many" -> "returned"

\* The statement scrape_project executes after the awaited step s has
\* returned: page.goto, project_extractor.extract_from_page,
\* project_repo.upsert, image_extractor.extract_from_page, and if images:
\* image_repo.save_many, image_pipeline.download_many. The item loop of
\* CronScraper.scrape_behance has the same steps in the same order.
step_after(s, imgs) ==
    CASE s = "goto" -> "extract"
      [] s = "extract" -> "upsert"
      [] s = "upsert" -> "images"
      [] s = "images" -> IF imgs # <<>> THEN "save_many" ELSE "returned"
      [] s = "save_many" -> "download_many"
      [] s = "download_many" -> "returned"

\* The awaited step s of the call has returned.
Advance(call, s) ==
    [call EXCEPT !.pc = step_after(s, call.imgs), !.done = Append(@, s)]

\* The awaited step has raised: scrape_project has no except clause, the
\* exception leaves the call.
Propagate(call) == [call EXCEPT !.pc = "raised"]

\* scrape_project(page, project_url) is called.
ScrapeProject(project_url) ==
    /\ item_call.pc \in {"idle", "returned", "raised"}
    /\ item_call' = [NoCall EXCEPT !.pc = "goto", !.url = project_url]
    /\ UNCHANGED <<projects, images>>

\* await page.goto(project_url, ...)
Goto(fault) ==
    /\ item_call.pc = "goto"
    /\ item_call' = IF fault THEN Propagate(item_call) ELSE Advance(item_call, "goto")
    /\ UNCHANGED <<projects, images>>

\* project = await self.project_extractor.extract_from_page(page)
ExtractProject(title, fault) ==
    /\ item_call.pc = "extract"
    /\ item_call' = IF fault THEN Propagate(item_call)
                    ELSE Advance([item_call EXCEPT !.title = title], "extract")
    /\ UNCHANGED <<projects, images>>

\* await self.project_repo.upsert(project)
UpsertProject(fault) ==
    /\ item_call.pc = "upsert"
    /\ IF fault
       THEN /\ item_call' = Propagate(item_call)
            /\ UNCHANGED projects
       ELSE /\ item_call' = Advance(item_call, "upsert")
            /\ projects' = upsert(projects, project_of(item_call.url, item_call.title))
    /\ UNCHANGED images

\* images = await self.image_extractor.extract_from_page(page, project.id)
ExtractImages(imgs, fault) ==
    /\ item_call.pc = "images"
    /\ item_call' = IF fault THEN Propagate(item_call)
                    ELSE Advance([item_call EXCEPT !.imgs = imgs], "images")
    /\ UNCHANGED <<projects, images>>

\* await self.image_repo.save_many(images)
SaveMany(fault) ==
    /\ item_call.pc = "save_many"
    /\ IF fault
       THEN /\ item_call' = Propagate(item_call)
            /\ UNCHANGED images
       ELSE /\ item_call' = Advance(item_call, "save_many")
            /\ images' = save_many(images, item_call.imgs, item_call.url.gallery)
            /\ Len(images') <= MaxImageDocs
    /\ UNCHANGED projects

\* results = await self.image_pipeline.download_many(image_urls), which
\* never raises.
DownloadMany ==
    /\ item_call.pc = "download_many"
    /\ item_call' = Advance(item_call, "download_many")
    /\ UNCHANGED <<projects, images>>

InitProject ==
    /\ InitItemIdle
    /\ InitRunIdle
    /\ InitAuthIdle
    /\ InitPinterestIdle
    /\ InitBehanceIdle
    /\ InitRepoIdle
    /\ InitFetchIdle

NextProject ==
    \/ \E project_url \in ProjectUrls : ScrapeProject(project_url)
    \/ \E fault \in BOOLEAN : Goto(fault)
    \/ \E title \in Titles, fault \in BOOLEAN : ExtractProject(title, fault)
    \/ \E fault \in BOOLEAN : UpsertProject(fault)
    \/ \E imgs \in ImageLists, fault \in BOOLEAN : ExtractImages(imgs, fault)
    \/ \E fault \in BOOLEAN : SaveMany(fault)
    \/ DownloadMany

NextProjectFramed ==
    /\ NextProject
    /\ UNCHANGED <<fetchVars, repo_hist, repo_before, program, run, last, targets,
                   project_links, idx, processed_projects, count, stats, item_log,
                   processed_at_start, faults, rest, scene, pinterestVars, authVars,
                   runVars, tally>>

SpecProject == InitProject /\ [][NextProjectFramed]_vars

\* -------- PinterestScraper.scrape_profile and CronScraper.scrape_pinterest

Username == "u"
BoardIds == {1, 2}

\* PinterestBoardExtractor.extract_boards: one board per card, in page order.
BoardLists == SeqsUpTo(BoardIds, MaxBoards)

\* PinterestPinExtractor.extract_pins_from_board: the ids of the pins shown.
PinLists == {<<>>, <<1>>, <<2, 1>>}

\* PinterestBoard.model_dump(), PinterestPin.model_dump(),
\* PinterestProfile.model_dump()
board_dump(id) == [id |-> id, owner_username |-> Username]
pin_dump(id) == [id |-> id, owner_username |-> Username]
profile_dump == [username |-> Username]

\* Positions of the documents of coll that match every field of filter.
MatchingAll(coll, filter) ==
    {i \in 1..Len(coll) :
        \A f \in DOMAIN filter : f \in DOMAIN coll[i] /\ coll[i][f] = filter[f]}

\* collection.update_one(filter, {"$set": d}, upsert=True)
update_one_upsert(coll, filter, d) ==
    LET m == MatchingAll(coll, filter)
    IN  IF m # {}
        THEN [coll EXCEPT ![Min(m)] = ApplySet(@, d)]
        ELSE Append(coll, ApplySet(filter, d))

\* for board in boards: db.pinterest_boards.update_one({'id', 'owner_username'}, ...)
RECURSIVE UpsertBoards(_, _)
UpsertBoards(coll, bs) ==
    IF bs = <<>> THEN coll
    ELSE UpsertBoards(update_one_upsert(coll, board_dump(Head(bs)), board_dump(Head(bs))),
                      Tail(bs))

\* for pin in pins: db.pinterest_pins.update_one({'id': pin.id}, ...)
RECURSIVE UpsertPins(_, _)
UpsertPins(coll, ps) ==
    IF ps = <<>> THEN coll
    ELSE UpsertPins(update_one_upsert(coll, [id |-> Head(ps)], pin_dump(Head(ps))),
                    Tail(ps))

\* db.pinterest_boards.insert_many([b.model_dump() for b in boards])
InsertBoards(coll, bs) == insert_many(coll, [i \in 1..Len(bs) |-> board_dump(bs[i])])

\* db.pinterest_pins.insert_many([p.model_dump() for p in pins])
InsertPins(coll, ps) == insert_many(coll, [i \in 1..Len(ps) |-> pin_dump(ps[i])])

\* PinterestAuthenticator.login_with_cookies: False if the file is missing,
\* True once the cookies of the file are added to the context.
login_with_cookies(file) == file # "missing"

\* ------------------------------------------------- PinterestAuthenticator

\* page.url as the strategies test it: 'pinterest.com' in current_url, and
\* 'login' in current_url.lower().
PageUrls == [pinterest : BOOLEAN, login : BOOLEAN]

\* What a probe for an element meets: the element, no element, or a fault of
\* the query.
Probes == {"present", "absent", "fault"}

\* A strategy without its outer except clause: the fault leaves the call.
strategy_propagates(fault) == Raises(fault)

\* except Exception as e: print(...); return False
strategy_except(fault) == Returns(FALSE)

\* One run of login_with_google as the browser lets it go: stop is the step
\* that ends the run early (goto or click raises; no Google button; neither
\* popup nor redirect; no email input; no password input), next_button and
\* signin_button tell whether a selector finds the button before its timeout,
\* url and marker are what the main page shows at the end, session whether
\* the context is logged in then.
GoogleStops == {"none", "goto", "no_button", "click", "no_surface", "no_email", "no_password"}

GoogleRuns ==
    {e \in [stop : GoogleStops, next_button : BOOLEAN, signin_button : BOOLEAN,
            url : PageUrls, marker : Probes, session : BOOLEAN] :
        /\ e.marker = "present" => e.url.pinterest /\ e.session
        /\ e.session => e.stop = "none"}

\* PinterestAuthenticator.login_with_google
login_with_google(e) ==
    IF e.stop \in {"goto", "click"} THEN strategy_except(e.stop)
    ELSE IF e.stop # "none" THEN Returns(FALSE)
    ELSE IF e.url.pinterest /\ ~e.url.login THEN Returns(TRUE)
    ELSE IF e.marker = "present" THEN Returns(TRUE)
    ELSE IF e.url.pinterest THEN Returns(TRUE)
    ELSE Returns(FALSE)

\* One run of login: stop is the step that raises (goto, the email or the
\* password input, the submit button or its click, the wait after it), url
\* the page after the wait, error the probe for an error message, which is
\* made only on a login URL.
LoginStops == {"none", "goto", "email", "password", "submit", "wait"}

LoginRuns ==
    {e \in [stop : LoginStops, url : PageUrls, error : Probes, session : BOOLEAN] :
        e.session => e.stop = "none" /\ e.url.pinterest}

\* A success test that takes any page of the site for a logged-in one.
on_site(url) == url.pinterest

\* if 'login' not in current_url.lower()
left_login_page(url) == ~url.login

\* PinterestAuthenticator.login
login(e) ==
    IF e.stop # "none" THEN strategy_except(e.stop)
    ELSE IF left_login_page(e.url) THEN Returns(TRUE)
    ELSE IF e.error = "fault" THEN strategy_except("error")
    ELSE Returns(FALSE)

\* One call of login_with_cookies: the file, and the step that raises (json
\* load, add_cookies) once the file is open.
CookieRuns == [file : {"missing", "valid", "expired"}, stop : {"none", "load", "add_cookies"}]

\* PinterestAuthenticator.login_with_cookies, faults included.
login_with_cookies_call(e) ==
    IF e.file = "missing" THEN Returns(FALSE)
    ELSE IF e.stop # "none" THEN strategy_except(e.stop)
    ELSE Returns(login_with_cookies(e.file))

\* One call of save_cookies: the step that raises (context.cookies, mkdir,
\* open, dump).
SaveRuns == [stop : {"none", "cookies", "mkdir", "open", "dump"}]

\* PinterestAuthenticator.save_cookies
save_cookies(e) ==
    IF e.stop # "none" THEN strategy_except(e.stop) ELSE Returns(TRUE)

Call(strategy, e, ended) == [strategy |-> strategy, env |-> e, outcome |-> ended]

CallLoginWithGoogle(e) == auth_call' = Call("google", e, login_with_google(e))

CallLogin(e) == auth_call' = Call("login", e, login(e))

CallLoginWithCookies(e) == auth_call' = Call("cookies", e, login_with_cookies_call(e))

CallSaveCookies(e) == auth_call' = Call("save", e, save_cookies(e))

InitAuth ==
    /\ InitAuthIdle
    /\ InitItemIdle
    /\ InitRunIdle
    /\ InitPinterestIdle
    /\ InitBehanceIdle
    /\ InitRepoIdle
    /\ InitFetchIdle

NextAuth ==
    \/ \E e \in GoogleRuns : CallLoginWithGoogle(e)
    \/ \E e \in LoginRuns : CallLogin(e)
    \/ \E e \in CookieRuns : CallLoginWithCookies(e)
    \/ \E e \in SaveRuns : CallSaveCookies(e)

NextAuthFramed ==
    NextAuth /\ UNCHANGED <<fetchVars, repoVars, behanceVars, pinterestVars, itemVars, runVars, form>>

SpecAuth == InitAuth /\ [][NextAuthFramed]_vars

\* ------------------- login_with_google at the Google sign-in form, by steps

\* next_selectors and signin_selectors: four selectors each.
Selectors == 4

\* One thing done at the form: at step "identifier" or "secret", with the
\* selector sel (0: with the input field itself), and how it went.
Event(step, sel, result) == [step |-> step, sel |-> sel, result |-> result]

StepOf(p) == IF p = "next" THEN "identifier" ELSE "secret"

\* A selector loop that goes on after a click.
click_continue(p) == p

\* next_clicked = True; break (signin_clicked = True; break): on to what
\* follows the loop.
click_break(p) == IF p = "next" THEN "password" ELSE "submitted"

\* A choice of the surface that takes the last page of the context whenever
\* there is more than one.
popup_first(provider, pages) ==
    IF pages > 1 THEN "popup" ELSE IF provider THEN "page" ELSE "none"

\* The surface that receives the credentials: the page itself if its URL
\* holds 'accounts.google.com', else the last page of the context if the
\* context has more than one page, else none.
google_page(provider, pages) ==
    IF provider THEN "page" ELSE IF pages > 1 THEN "popup" ELSE "none"

\* for selector in google_selectors: the first selector that finds the
\* button ends the loop; if not google_button: return False.
FindGoogleButton(found) ==
    /\ form.pc = "button"
    /\ form' = IF found
               THEN [form EXCEPT !.pc = "click"]
               ELSE [form EXCEPT !.pc = "failed", !.button = "missing"]

\* await google_button.click(), the wait, and the look at page.url and at
\* page.context.pages.  fault is the step that raises, if any: the click, or
\* wait_for_load_state of the popup; the except clause of the strategy
\* returns False.
ClickGoogleButton(fault, provider, pages) ==
    /\ form.pc = "click"
    /\ (fault = "load") => google_page(provider, pages) = "popup"
    /\ form' =
         IF fault = "click"
         THEN [form EXCEPT !.pc = "failed", !.button = "click_fault"]
         ELSE [form EXCEPT !.button = "clicked", !.provider = provider, !.pages = pages,
                           !.surface = google_page(provider, pages),
                           !.pc = IF fault = "load" \/ google_page(provider, pages) = "none"
                                  THEN "failed" ELSE "email"]

\* email_input = await google_page.wait_for_selector('input[type="email"]');
\* fill(email); on a fault the strategy returns False.
FillEmail(fault) ==
    /\ form.pc = "email"
    /\ form' = IF fault
               THEN [form EXCEPT !.pc = "failed",
                                 !.trace = Append(@, Event("identifier", 0, "fill_fault"))]
               ELSE [form EXCEPT !.pc = "next",
                                 !.trace = Append(@, Event("identifier", 0, "filled"))]

\* One iteration of for selector in next_selectors (signin_selectors):
\* wait_for_selector times out, or the element is found and its click raises:
\* except: continue; or the click returns: break.
TrySelector(result) ==
    /\ form.pc \in {"next", "signin"}
    /\ form.sel <= Selectors
    /\ LET p == IF result = "clicked" THEN click_break(form.pc) ELSE form.pc
       IN  form' = [form EXCEPT !.pc = p,
                                !.sel = IF p = form.pc THEN form.sel + 1 ELSE 1,
                                !.trace = Append(@, Event(StepOf(form.pc), form.sel, result))]

\* if not next_clicked: await email_input.press('Enter') (if not
\* signin_clicked: password_input.press); a fault goes to the except clause
\* of the strategy, which returns False.
PressEnter(fault) ==
    /\ form.pc \in {"next", "signin"}
    /\ form.sel > Selectors
    /\ form' = IF fault
               THEN [form EXCEPT !.pc = "failed", !.sel = 1,
                                 !.trace = Append(@, Event(StepOf(form.pc), 0, "enter_fault"))]
               ELSE [form EXCEPT !.pc = click_break(form.pc), !.sel = 1,
                                 !.trace = Append(@, Event(StepOf(form.pc), 0, "enter"))]

\* password_input = await google_page.wait_for_selector(
\* 'input[type="password"]'); fill(password); on a fault the strategy
\* returns False.
FillPassword(fault) ==
    /\ form.pc = "password"
    /\ form' = IF fault
               THEN [form EXCEPT !.pc = "failed",
                                 !.trace = Append(@, Event("secret", 0, "fill_fault"))]
               ELSE [form EXCEPT !.pc = "signin",
                                 !.trace = Append(@, Event("secret", 0, "filled"))]

InitGoogle ==
    /\ InitAuthIdle
    /\ InitItemIdle
    /\ InitRunIdle
    /\ InitPinterestIdle
    /\ InitBehanceIdle
    /\ InitRepoIdle
    /\ InitFetchIdle

NextGoogle ==
    \/ \E found \in BOOLEAN : FindGoogleButton(found)
    \/ \E fault \in {"none", "click", "load"}, provider \in BOOLEAN, pages \in 1..2 :
          ClickGoogleButton(fault, provider, pages)
    \/ \E fault \in BOOLEAN : FillEmail(fault)
    \/ \E result \in {"timeout", "click_fault", "clicked"} : TrySelector(result)
    \/ \E fault \in BOOLEAN : PressEnter(fault)
    \/ \E fault \in BOOLEAN : FillPassword(fault)

NextGoogleFramed ==
    NextGoogle /\ UNCHANGED <<fetchVars, repoVars, behanceVars, pinterestVars, itemVars, runVars,
                              auth_call>>

SpecGoogle == InitGoogle /\ [][NextGoogleFramed]_vars

\* ------------------------------------------- the authentication coordinator

\* A coordinator that tries the federated login whatever logged_in is.
google_always(li, creds) == creds

\* if not logged_in and email and password
google_wanted(li, creds) == ~li /\ creds

ZeroPinterestStats ==
    [boards_scraped |-> 0, pins_scraped |-> 0, images_downloaded |-> 0, errors |-> 0]

Attempt(strategy, result, valid) ==
    [strategy |-> strategy, result |-> result, valid |-> valid]

\* A coordinator that writes the cookies whenever a path is given.
save_always(li, path) == path

\* if logged_in and cookies_path
save_wanted(li, path) == li /\ path

\* A coordinator that says nothing when no strategy has logged in.
warn_never(li, n) == n

\* if not logged_in: print / log the warning
warn_unauthenticated(li, n) == IF li THEN n ELSE n + 1

\* A coordinator that gives up when no strategy has logged in.
abort_unauthenticated(li) == IF li THEN "profile" ELSE "idle"

\* After "if not logged_in: <warning>" the run navigates to the profile.
after_auth(li) == "profile"

\* The call up to "Authenticate": context and page are created; a fault
\* there leaves the call.
PinterestStart(fault) ==
    /\ pc = "idle"
    /\ IF fault
       THEN /\ outcome' = "failed"
            /\ UNCHANGED pc
       ELSE /\ outcome' = "none"
            /\ pc' = "cookies"
    /\ logged_in' = FALSE
    /\ attempts' = <<>>
    /\ boards' = <<>>
    /\ bidx' = 1
    /\ pinterest_stats' = ZeroPinterestStats
    /\ saves' = 0
    /\ warnings' = 0
    /\ board_log' = <<>>
    /\ UNCHANGED <<cookies_path, credentials, cookie_file, pinterest_profiles,
                   pinterest_boards, pinterest_pins, processed_boards>>

\* Session restore: scrape_profile calls login_with_cookies if a cookies path
\* is given, scrape_pinterest if the file at the path exists.
TryCookies(stop) ==
    /\ pc = "cookies"
    /\ pc' = "google"
    /\ IF (IF program = "cron_scraper" THEN cookie_file # "missing" ELSE cookies_path)
       THEN /\ logged_in' =
                   login_with_cookies_call([file |-> cookie_file, stop |-> stop]).value
            /\ attempts' = Append(attempts,
                   Attempt("cookies", logged_in', cookie_file = "valid"))
       ELSE UNCHANGED <<logged_in, attempts>>
    /\ UNCHANGED <<cookies_path, credentials, cookie_file, pinterest_profiles,
                   pinterest_boards, pinterest_pins, boards, bidx, processed_boards,
                   pinterest_stats, saves, warnings, outcome, board_log>>

\* Federated login, if not logged in and credentials are given; without it
\* the coordinator goes on to the warning.  result is what login_with_google
\* returned, valid whether the context is logged in.
TryGoogle(result, valid) ==
    /\ pc = "google"
    /\ IF google_wanted(logged_in, credentials)
       THEN /\ logged_in' = result
            /\ attempts' = Append(attempts, Attempt("google", result, valid))
            /\ pc' = IF ~result /\ program = "scrape_pinterest_images"
                     THEN "login" ELSE "save"
       ELSE /\ pc' = "check"
            /\ UNCHANGED <<logged_in, attempts>>
    /\ UNCHANGED <<cookies_path, credentials, cookie_file, pinterest_profiles,
                   pinterest_boards, pinterest_pins, boards, bidx, processed_boards,
                   pinterest_stats, saves, warnings, outcome, board_log>>

\* Direct login of scrape_profile, after a failed federated login.
TryLogin(result, valid) ==
    /\ pc = "login"
    /\ pc' = "save"
    /\ logged_in' = result
    /\ attempts' = Append(attempts, Attempt("login", result, valid))
    /\ UNCHANGED <<cookies_path, credentials, cookie_file, pinterest_profiles,
                   pinterest_boards, pinterest_pins, boards, bidx, processed_boards,
                   pinterest_stats, saves, warnings, outcome, board_log>>

\* if logged_in and cookies_path: save_cookies, which returns False if the
\* file cannot be written; the file then holds the cookies of the context,
\* those of a session or not.
SaveCookies(written) ==
    /\ pc = "save"
    /\ pc' = "check"
    /\ IF save_wanted(logged_in, cookies_path)
       THEN /\ saves' = saves + 1
            /\ cookie_file' = IF ~written THEN cookie_file
                              ELSE IF attempts[Len(attempts)].valid THEN "valid"
                              ELSE "expired"
       ELSE UNCHANGED <<saves, cookie_file>>
    /\ UNCHANGED <<cookies_path, credentials, logged_in, attempts, pinterest_profiles,
                   pinterest_boards, pinterest_pins, boards, bidx, processed_boards,
                   pinterest_stats, warnings, outcome, board_log>>

\* if not logged_in: print / log the warning; then on to the profile.
AuthDone ==
    /\ pc = "check"
    /\ pc' = after_auth(logged_in)
    /\ warnings' = warn_unauthenticated(logged_in, warnings)
    /\ outcome' = IF pc' = "idle" THEN "failed" ELSE outcome
    /\ UNCHANGED <<cookies_path, credentials, cookie_file, logged_in, attempts,
                   pinterest_profiles, pinterest_boards, pinterest_pins, boards, bidx,
                   processed_boards, pinterest_stats, saves, board_log>>

\* The profile page: scrape_profile upserts the profile; both extract the
\* boards and write them, scrape_profile after the cut to max_boards (0: no
\* limit) with insert_many, scrape_pinterest with one upsert per board. A
\* fault of goto or of extract_boards leaves the call.  The record of the
\* authentication (attempts, saves, warnings) is kept up to this step.
ExtractBoards(bs, max_boards, fault) ==
    /\ pc = "profile"
    /\ pinterest_profiles' =
          IF program = "scrape_pinterest_images" /\ fault # "goto"
          THEN update_one_upsert(pinterest_profiles, [username |-> Username], profile_dump)
          ELSE pinterest_profiles
    /\ IF fault # "none"
       THEN /\ pc' = "idle"
            /\ outcome' = "failed"
            /\ UNCHANGED <<pinterest_boards, boards>>
       ELSE /\ pc' = "boards"
            /\ outcome' = outcome
            /\ boards' = IF program = "scrape_pinterest_images" /\ max_boards # 0
                         THEN Take(bs, max_boards) ELSE bs
            /\ pinterest_boards' =
                  IF program = "cron_scraper"
                  THEN UpsertBoards(pinterest_boards, boards')
                  ELSE IF boards' # <<>>
                       THEN InsertBoards(pinterest_boards, boards')
                       ELSE pinterest_boards
            /\ Len(pinterest_boards') <= MaxBoardDocs
    /\ bidx' = 1
    /\ attempts' = <<>>
    /\ saves' = 0
    /\ warnings' = 0
    /\ UNCHANGED <<cookies_path, credentials, cookie_file, logged_in,
                   pinterest_pins, processed_boards, pinterest_stats, board_log>>

\* One iteration of the loop over the boards: scrape_profile skips a board
\* in processed_boards; the pins extracted are written, by scrape_profile with
\* insert_many, by scrape_pinterest with one upsert per pin; a fault of goto
\* or of the extraction goes on with the next board.
BoardItem(pins, ok, fault) ==
    /\ pc = "boards"
    /\ bidx <= Len(boards)
    /\ ok \in 0..Len(pins)
    /\ bidx' = bidx + 1
    /\ LET board == boards[bidx]
       IN  IF program = "scrape_pinterest_images" /\ board \in processed_boards
           THEN /\ board_log' = Append(board_log, "skipped")
                /\ UNCHANGED <<pinterest_pins, processed_boards, pinterest_stats>>
           ELSE IF fault
                THEN /\ board_log' = Append(board_log, "fault")
                     /\ pinterest_stats' =
                           IF program = "cron_scraper"
                           THEN count_error(pinterest_stats) ELSE pinterest_stats
                     /\ UNCHANGED <<pinterest_pins, processed_boards>>
                ELSE /\ board_log' = Append(board_log, "ok")
                     /\ pinterest_stats' =
                           [pinterest_stats EXCEPT !.boards_scraped = @ + 1,
                                                   !.pins_scraped = @ + Len(pins),
                                                   !.images_downloaded = @ + ok]
                     /\ pinterest_pins' =
                           IF pins = <<>> THEN pinterest_pins
                           ELSE IF program = "cron_scraper"
                                THEN UpsertPins(pinterest_pins, pins)
                                ELSE InsertPins(pinterest_pins, pins)
                     /\ Len(pinterest_pins') <= MaxPinDocs
                     /\ processed_boards' =
                           IF program = "scrape_pinterest_images"
                           THEN processed_boards \cup {board}
                           ELSE processed_boards
    /\ UNCHANGED <<cookies_path, credentials, cookie_file, pc, logged_in, attempts,
                   pinterest_profiles, pinterest_boards, boards, saves, warnings, outcome>>

\* A run that fails when one of its boards raised.
run_outcome_strict(log) ==
    IF \E i \in 1..Len(log) : log[i] = "fault" THEN "failed" ELSE "completed"

\* return stats, whatever happened to the boards.
run_outcome(log) == "completed"

\* The loop is over: page and context are closed, stats returned; the stats
\* dict is a local of the call.
PinterestReturn ==
    /\ pc = "boards"
    /\ bidx > Len(boards)
    /\ pc' = "idle"
    /\ outcome' = run_outcome(board_log)
    /\ boards' = <<>>
    /\ bidx' = 1
    /\ board_log' = <<>>
    /\ pinterest_stats' = ZeroPinterestStats
    /\ UNCHANGED <<cookies_path, credentials, cookie_file, logged_in, attempts,
                   pinterest_profiles, pinterest_boards, pinterest_pins, processed_boards,
                   saves, warnings>>

\* The site ends the session whose cookies the file holds.
SessionExpires ==
    /\ cookie_file = "valid"
    /\ cookie_file' = "expired"
    /\ UNCHANGED <<cookies_path, credentials, pc, logged_in, attempts, pinterest_profiles,
                   pinterest_boards, pinterest_pins, boards, bidx, processed_boards,
                   pinterest_stats, saves, warnings, outcome, board_log>>

\* What a call of login_with_google, of login, can give the coordinator: the
\* value returned, and whether the context is logged in.
GoogleResults == {<<login_with_google(e).value, e.session>> : e \in GoogleRuns}

LoginResults == {<<login(e).value, e.session>> : e \in LoginRuns}

\* scrape_pinterest reads cookies_path, email and password from its config;
\* scrape_profile gets each from the command line, or not.
InitPinterest ==
    /\ program \in {"cron_scraper", "scrape_pinterest_images"}
    /\ cookies_path \in BOOLEAN
    /\ credentials \in BOOLEAN
    /\ program = "cron_scraper" => cookies_path /\ credentials
    /\ InitPinterestState
    /\ InitBehanceState
    /\ InitAuthIdle
    /\ InitItemIdle
    /\ InitRunIdle
    /\ InitRepoIdle
    /\ InitFetchIdle

NextPinterest ==
    \/ \E fault \in BOOLEAN : PinterestStart(fault)
    \/ \E stop \in {"none", "load", "add_cookies"} : TryCookies(stop)
    \/ \E r \in GoogleResults : TryGoogle(r[1], r[2])
    \/ \E r \in LoginResults : TryLogin(r[1], r[2])
    \/ \E e \in SaveRuns : SaveCookies(save_cookies(e).value)
    \/ AuthDone
    \/ \E bs \in BoardLists, max_boards \in 0..MaxBoards,
          fault \in {"none", "goto", "extract_boards"} : ExtractBoards(bs, max_boards, fault)
    \/ \E pins \in PinLists, ok \in 0..2, fault \in BOOLEAN : BoardItem(pins, ok, fault)
    \/ PinterestReturn
    \/ SessionExpires

NextPinterestFramed ==
    NextPinterest /\ UNCHANGED <<fetchVars, repoVars, behanceVars, authVars, itemVars, runVars>>

SpecPinterest == InitPinterest /\ [][NextPinterestFramed]_vars

\* ------------------------------------------------- the entry points (main)

\* main of cron_scraper.py, of scripts/scrape_behance.py and of
\* scrape_pinterest_images.py, from the start of the process to its exit.  The
\* scrapers a process runs are its stages; the work inside an item is the
\* subject of SpecProject and appears here as one step from its start to its end.

Programs == {"cron_scraper", "scrape_behance", "scrape_pinterest_images"}

\* CronScraper.run calls scrape_behance, then scrape_pinterest; each script
\* has one scraper.
Scrapers(prog) ==
    CASE prog = "cron_scraper" -> <<"behance", "pinterest">>
      [] prog = "scrape_behance" -> <<"behance">>
      [] prog = "scrape_pinterest_images" -> <<"pinterest">>

\* The store client and the browser of a scraper.
Resources == {"store", "browser"}

\* The faults of the start of a scraper that are setup faults.
SetupFaults == {"connect", "launch"}

\* finally: browser_manager.close() and mongo_client.disconnect(), in
\* scrape_behance and scrape_pinterest of CronScraper; cleanup() in the
\* finally clause of main of the scripts.
Release(p) == [p EXCEPT !.open = {}]

\* The process leaves with the given status, through the finally clause that
\* encloses the position it leaves from.
Exit(p, st) == [Release(p) EXCEPT !.pc = "exited", !.status = st]

\* A scraper of CronScraper leaves while it starts: connect and launch stand
\* before the try block, so the store client connected before a launch that
\* raised is left as it is.
RaiseBeforeTry(p, fault) ==
    IF fault = "launch"
    THEN [p EXCEPT !.left_open = @ \cup {<<Scrapers(p.program)[p.stage], "store">>}]
    ELSE p

\* CronScraper.run after one of its scrapers has returned or raised: the
\* result is recorded and the next scraper starts; after the last one the
\* summary is printed.
RunRecords(p, result) ==
    LET q == [p EXCEPT !.results = Append(@, result)]
    IN  IF p.stage < Len(Scrapers(p.program))
        THEN [q EXCEPT !.pc = "setup", !.stage = @ + 1]
        ELSE [q EXCEPT !.pc = "summary"]

\* A scraper of CronScraper raised: run's except Exception records the error
\* and goes on.
RunCatches(p, fault) ==
    RunRecords([p EXCEPT !.setup_fault = @ \/ (fault \in SetupFaults)], "error")

\* The interrupt unwinds the coroutine where it stands: no handler of the
\* loops catches it, the item in progress is left as it is and the summary
\* is not printed.
LeaveNow(p, st) == Exit([p EXCEPT !.interrupted = TRUE], st)

\* The start of a scraper: the connection to MongoDB ("connect" when it
\* raises), the launch of the browser ("launch"), then the listing or the
\* profile ("listing").
Setup(fault) ==
    /\ proc.pc = "setup"
    /\ proc' =
         CASE fault = "none" -> [proc EXCEPT !.pc = "loop", !.open = Resources]
           [] fault # "none" /\ proc.program # "cron_scraper" ->
                \* main: except Exception, sys.exit(1); finally: cleanup()
                Exit([proc EXCEPT !.setup_fault = (fault \in SetupFaults)], 1)
           [] fault = "listing" /\ proc.program = "cron_scraper"
                /\ Scrapers(proc.program)[proc.stage] = "behance" ->
                \* the except of the search URL loop
                [proc EXCEPT !.pc = "loop", !.errors = @ + 1, !.open = Resources]
           [] fault = "listing" -> RunCatches(proc, fault)
           [] OTHER -> RunCatches(RaiseBeforeTry(proc, fault), fault)
    /\ UNCHANGED scroller

StartItem ==
    /\ proc.pc = "loop"
    /\ proc.started < MaxLinks
    /\ proc' = [proc EXCEPT !.pc = "item", !.started = @ + 1]
    /\ UNCHANGED scroller

\* The item ends; a fault inside it is caught by the except Exception of the
\* loop and counted or printed there.
EndItem(fault) ==
    /\ proc.pc = "item"
    /\ proc' = [proc EXCEPT !.pc = "loop", !.finished = @ + 1,
                            !.errors = IF fault THEN @ + 1 ELSE @]
    /\ UNCHANGED scroller

\* The loop is over and the scraper returns its statistics.
EndLoop ==
    /\ proc.pc = "loop"
    /\ proc' = IF proc.program = "cron_scraper"
               THEN RunRecords(Release(proc), "stats")
               ELSE [proc EXCEPT !.pc = "summary"]
    /\ UNCHANGED scroller

\* The summary is printed and the process leaves: sys.exit(0) in cron's
\* main, the end of main in the scripts.
Summary ==
    /\ proc.pc = "summary"
    /\ proc' = Exit([proc EXCEPT !.reported = TRUE], 0)
    /\ UNCHANGED scroller

\* The operator interrupts the process.  Under asyncio.run the coroutine sees
\* either the KeyboardInterrupt itself or the cancellation of its task,
\* depending on the interpreter and on where the event loop stands.  The
\* scripts answer KeyboardInterrupt with sys.exit(0); nothing answers the
\* cancellation, and cron's main answers neither: the interpreter then ends
\* the process with the status of an unhandled interrupt, 130.
Interrupt(seen) ==
    /\ proc.pc \in {"setup", "loop", "item", "summary"}
    /\ proc' = IF seen = "KeyboardInterrupt" /\ proc.program # "cron_scraper"
               THEN LeaveNow(proc, 0)
               ELSE LeaveNow(proc, 130)
    /\ UNCHANGED scroller

InitMain ==
    /\ proc \in {[NoProc EXCEPT !.program = prog, !.pc = "setup", !.stage = 1] :
                   prog \in Programs}
    /\ scroller = NoScroll
    /\ InitItemIdle
    /\ InitAuthIdle
    /\ InitPinterestIdle
    /\ InitBehanceIdle
    /\ InitRepoIdle
    /\ InitFetchIdle

NextMain ==
    \/ \E fault \in {"none", "connect", "launch", "listing"} : Setup(fault)
    \/ StartItem
    \/ \E fault \in BOOLEAN : EndItem(fault)
    \/ EndLoop
    \/ Summary
    \/ \E seen \in {"KeyboardInterrupt", "CancelledError"} : Interrupt(seen)

NextMainFramed ==
    NextMain /\ UNCHANGED <<fetchVars, repoVars, behanceVars, pinterestVars, authVars,
                            itemVars>>

SpecMain == InitMain /\ [][NextMainFramed]_vars

\* ------------------------------ scroll_to_load_more and _scroll_to_load

\* The scroll loops that let a listing load more of its elements before it is
\* read: SearchExtractor.scroll_to_load_more under search_projects, and
\* _scroll_to_load under extract_boards and extract_pins_from_board.  The
\* listing may grow by one element with each scroll, up to MaxLinks.

Callers == {"search_projects", "extract_boards", "extract_pins_from_board"}

\* extract_boards scrolls only when it finds fewer board elements than this.
BoardsEnough == 5

\* The scroll count each caller passes.
ScrollCount(caller) ==
    CASE caller = "search_projects" -> 3
      [] caller = "extract_boards" -> 2
      [] caller = "extract_pins_from_board" -> 5
      [] OTHER -> 0

\* A loop that scrolls again as long as the last scroll loaded something.
scroll_while_growing(sc) == sc.grew

\* for i in range(scroll_count)
more_scrolls(sc) == sc.i < sc.scroll_count

ScrollCall(caller, n0) ==
    /\ scroller.pc \in {"idle", "done", "raised"}
    /\ scroller' =
         IF caller = "extract_boards" /\ n0 >= BoardsEnough
         THEN [NoScroll EXCEPT !.pc = "done", !.caller = caller,
                               !.first = n0, !.items = n0]
         ELSE [NoScroll EXCEPT !.pc = "scrolling", !.caller = caller,
                               !.scroll_count = ScrollCount(caller),
                               !.first = n0, !.items = n0, !.grew = TRUE]
    /\ UNCHANGED proc

\* One turn of the loop: the scroll to the bottom, the wait, and in
\* scroll_to_load_more the click on "Load More" when the button is there.  A
\* fault of the page ends the call.
ScrollAdvance(grew, button, fault) ==
    /\ scroller.pc = "scrolling"
    /\ more_scrolls(scroller)
    /\ grew => scroller.items < MaxLinks
    /\ button => scroller.caller = "search_projects"
    /\ scroller' =
         IF fault
         THEN [scroller EXCEPT !.pc = "raised", !.advances = @ + 1]
         ELSE [scroller EXCEPT !.i = @ + 1, !.advances = @ + 1,
                               !.clicks = IF button THEN @ + 1 ELSE @,
                               !.items = IF grew THEN @ + 1 ELSE @,
                               !.grew = grew]
    /\ UNCHANGED proc

\* The loop is over; the caller reads the listing as it now is.
ScrollReturn ==
    /\ scroller.pc = "scrolling"
    /\ ~more_scrolls(scroller)
    /\ scroller' = [scroller EXCEPT !.pc = "done"]
    /\ UNCHANGED proc

InitScroll ==
    /\ scroller = NoScroll
    /\ proc = NoProc
    /\ InitItemIdle
    /\ InitAuthIdle
    /\ InitPinterestIdle
    /\ InitBehanceIdle
    /\ InitRepoIdle
    /\ InitFetchIdle

NextScroll ==
    \/ \E caller \in Callers, n0 \in (0..MaxLinks) \cup {BoardsEnough} :
          ScrollCall(caller, n0)
    \/ \E grew \in BOOLEAN, button \in BOOLEAN, fault \in BOOLEAN :
          ScrollAdvance(grew, button, fault)
    \/ ScrollReturn

NextScrollFramed ==
    NextScroll /\ UNCHANGED <<fetchVars, repoVars, behanceVars, pinterestVars, authVars,
                              itemVars>>

\* Every wait of the loop is a timeout of fixed length, so a call in progress
\* takes its next step.
SpecScroll == InitScroll /\ [][NextScrollFramed]_vars /\ WF_vars(NextScrollFramed)

\* ------------------------------------------------- claims on ImagePipeline

Indices == 1..Len(urls)

\* C3 (fetch cardinality): a download_many call that returned gives exactly
\* one outcome per input reference, and the i-th outcome carries the i-th input
\* URL, whatever the order in which the fetches completed.
C3_FetchCardinality ==
    phase = "returned" =>
        /\ Len(returned) = Len(urls)
        /\ \A i \in Indices : returned[i].url = urls[i]

\* C3 witness: two different references whose fetches completed in the reverse
\* of the input order.
C3_Witness ==
    /\ phase = "returned"
    /\ Len(urls) = 2
    /\ urls[1] # urls[2]
    /\ order = <<2, 1>>

\* C3 witness of the duplicate case: the same URL given twice.
C3_WitnessDuplicate ==
    /\ phase = "returned"
    /\ Len(urls) = 2
    /\ urls[1] = urls[2]

Unreachable(i) == task[i].fault \in {"ConnectError", "HTTPStatusError"}

\* C4 (fetch independence): no fault of a fetch leaves download_many as an
\* exception; in what the call returns, reference i failed iff its own fetch
\* faulted, a failed outcome carries the error description, and with exactly one
\* unreachable reference among M otherwise faultless ones exactly one outcome
\* has success = FALSE and M - 1 have success = TRUE.
C4_FetchIndependence ==
    /\ phase # "raised"
    /\ phase = "returned" =>
        /\ Len(returned) = Len(urls)
        /\ \A i \in Indices :
              /\ returned[i].success = (task[i].fault = None)
              /\ task[i].fault # None => returned[i].error_message = task[i].fault
        /\ (/\ Cardinality({i \in Indices : Unreachable(i)}) = 1
            /\ \A i \in Indices : ~Unreachable(i) => task[i].fault = None)
           => /\ Cardinality({i \in Indices : ~returned[i].success}) = 1
              /\ Cardinality({i \in Indices : returned[i].success}) = Len(urls) - 1

\* C4 witness: of two references the first is unreachable and fails before the
\* second one, which then still succeeds.
C4_Witness ==
    /\ phase = "returned"
    /\ Len(urls) = 2
    /\ Unreachable(1)
    /\ order = <<1, 2>>
    /\ returned[2].success

C8_UpsertConvergence ==
    (/\ Len(repo_hist) = 2
     /\ repo_hist[1] = repo_hist[2]
     /\ repo_hist[2][1] = "upsert")
    => projects = repo_before

\* C8 witness: upsert(r) applied twice in a row to a collection that holds two
\* documents with r's id (written by save) and a document with another id.
C8_Witness ==
    /\ Len(repo_hist) = 2
    /\ repo_hist[1] = repo_hist[2]
    /\ repo_hist[2][1] = "upsert"
    /\ Cardinality(Matching(projects, "id", repo_hist[2][2].id)) = 2
    /\ Len(projects) = 3

\* ------------------------------------------- claims on the per-item loops

Positions == 1..Len(item_log)

C1_WitnessBehance ==
    /\ run = "behance"
    /\ LoopDone
    /\ item_log = <<"fault", "ok">>
    /\ count = 1

\* C2: no item whose URL without its query string is that of a URL in
\* processed_projects at the start of a BehanceScraper call is passed to
\* scrape_project during the call.
C2_DedupByItemKey ==
    run = "behance" =>
        \A i \in Positions :
            item_log[i] # "skipped" =>
                base_url(project_links[i]) \notin {base_url(u) : u \in processed_at_start}

\* The same with the key the code uses, the URL as listed: it holds.
C2_DedupByListedUrl ==
    run = "behance" =>
        \A i \in Positions :
            item_log[i] # "skipped" => project_links[i] \notin processed_at_start

\* C7: collection "images" holds at most one document per (project id, source
\* URL).
C7_OneImageDocPerKey ==
    \A i, j \in 1..Len(images) :
        (images[i].project_id = images[j].project_id /\ images[i].url = images[j].url)
            => i = j

\* Collection "projects" holds at most one document per project id after any
\* runs of CronScraper.scrape_behance or BehanceScraper.
OneProjectDocPerId ==
    \A i, j \in 1..Len(projects) : projects[i].id = projects[j].id => i = j

\* ------------------------------------------- claims on the Pinterest runs

\* C6: after any runs of scrape_profile or of scrape_pinterest, collection
\* "pinterest_boards" holds at most one document per (board id, owner) and
\* collection "pinterest_pins" at most one document per pin id.
C6_OneRecordPerKey ==
    /\ \A i, j \in 1..Len(pinterest_boards) :
          (/\ pinterest_boards[i].id = pinterest_boards[j].id
           /\ pinterest_boards[i].owner_username = pinterest_boards[j].owner_username)
              => i = j
    /\ \A i, j \in 1..Len(pinterest_pins) :
          pinterest_pins[i].id = pinterest_pins[j].id => i = j

\* The same for the runs of CronScraper.scrape_pinterest alone: it holds.
C6_OneRecordPerKeyCron == program = "cron_scraper" => C6_OneRecordPerKey

StrategyRank(strategy) ==
    CASE strategy = "cookies" -> 1
      [] strategy = "google" -> 2
      [] strategy = "login" -> 3

\* C9: the strategies attempted in a run are attempted in the order
\* login_with_cookies, login_with_google, login, and each one only after every
\* strategy attempted before it has returned False: nothing is attempted
\* after a strategy has returned True.
C9_StrategyOrder ==
    \A i, j \in 1..Len(attempts) :
        i < j => /\ StrategyRank(attempts[i].strategy) < StrategyRank(attempts[j].strategy)
                 /\ ~attempts[i].result

\* C9 witness: scrape_profile has attempted the three strategies in order,
\* the first two failed and the direct login succeeded.
C9_Witness ==
    /\ Len(attempts) = 3
    /\ attempts[1].strategy = "cookies" /\ ~attempts[1].result
    /\ attempts[2].strategy = "google" /\ ~attempts[2].result
    /\ attempts[3].strategy = "login" /\ attempts[3].result
    /\ logged_in

\* C9, second scene: the session restore returned True and the run has gone
\* past the other strategies without attempting them.
C9_WitnessRestored ==
    /\ pc = "profile"
    /\ credentials
    /\ Len(attempts) = 1
    /\ attempts[1].strategy = "cookies" /\ attempts[1].result

\* C10: login_with_cookies returns True only if the session of the cookies it
\* applied is a logged-in one.
C10_RestoreRequiresProbe ==
    \A i \in 1..Len(attempts) :
        (attempts[i].strategy = "cookies" /\ attempts[i].result) => attempts[i].valid

\* --------------------------------------- claims on PinterestAuthenticator

Called == auth_call.strategy # "none"

\* A step of the last call met a timeout, a missing element or another fault.
StepFault ==
    CASE auth_call.strategy = "google" ->
            \/ auth_call.env.stop # "none"
            \/ ~auth_call.env.next_button
            \/ ~auth_call.env.signin_button
            \/ auth_call.env.marker = "fault"
      [] auth_call.strategy = "login" ->
            \/ auth_call.env.stop # "none"
            \/ auth_call.env.url.login /\ auth_call.env.error = "fault"
      [] auth_call.strategy = "cookies" ->
            auth_call.env.file # "missing" /\ auth_call.env.stop # "none"
      [] auth_call.strategy = "save" -> auth_call.env.stop # "none"
      [] OTHER -> FALSE

\* A step without a fallback ended the last call.
Stopped ==
    CASE auth_call.strategy = "login" ->
            \/ auth_call.env.stop # "none"
            \/ auth_call.env.url.login /\ auth_call.env.error = "fault"
      [] auth_call.strategy = "cookies" ->
            auth_call.env.file = "missing" \/ auth_call.env.stop # "none"
      [] OTHER -> auth_call.env.stop # "none"

\* C13 as stated: a timeout, a missing element or any other fault at any
\* step of a strategy makes the strategy return False.
C13_EveryFaultFails ==
    (Called /\ StepFault) => auth_call.outcome = Returns(FALSE)

\* C13, amended: login_with_cookies, login_with_google, login and
\* save_cookies return a boolean on every path and never raise; a fault at a
\* step that has no fallback makes them return False.
C13_StrategyIsolation ==
    Called =>
        /\ auth_call.outcome.exc = None
        /\ auth_call.outcome.value \in BOOLEAN
        /\ Stopped => auth_call.outcome.value = FALSE

\* C13 witness: page.goto raised inside login_with_google, and the call
\* returned False.
C13_Witness ==
    /\ auth_call.strategy = "google"
    /\ auth_call.env.stop = "goto"
    /\ auth_call.outcome = Returns(FALSE)

\* C13, second scene: the Next button was not found, the Enter key took its
\* place, and the call returned True.
C13_WitnessFallback ==
    /\ auth_call.strategy = "google"
    /\ ~auth_call.env.next_button
    /\ auth_call.outcome = Returns(TRUE)

\* C14: login_with_google returns True only if the main page is on the site
\* and shows a logged-in marker or has a URL without the login fragment.
C14_GoogleVerified ==
    (auth_call.strategy = "google" /\ auth_call.outcome = Returns(TRUE)) =>
        /\ auth_call.env.url.pinterest
        /\ auth_call.env.marker = "present" \/ ~auth_call.env.url.login

\* C15: login returns True if and only if no step up to the wait after the
\* submit raised and the URL then has no login fragment; it returns False
\* otherwise.
C15_LoginCriterion ==
    auth_call.strategy = "login" =>
        /\ auth_call.outcome.exc = None
        /\ auth_call.outcome.value \in BOOLEAN
        /\ auth_call.outcome.value <=>
              (auth_call.env.stop = "none" /\ ~auth_call.env.url.login)

\* C15 witness: the form was submitted and the page left the login URL.
C15_Witness ==
    /\ auth_call.strategy = "login"
    /\ auth_call.env.stop = "none"
    /\ ~auth_call.env.url.login
    /\ auth_call.outcome = Returns(TRUE)

\* C15, second scene: the form was submitted and the page is still the login
\* page.
C15_WitnessStillLogin ==
    /\ auth_call.strategy = "login"
    /\ auth_call.env.stop = "none"
    /\ auth_call.env.url.login
    /\ auth_call.outcome = Returns(FALSE)

\* ------------------------------- claims on the authentication coordinator

\* The last strategy attempted was the federated or the direct login, and it
\* returned True.
NewSession ==
    /\ attempts # <<>>
    /\ attempts[Len(attempts)].strategy \in {"google", "login"}
    /\ attempts[Len(attempts)].result

C11_WitnessRestored ==
    /\ pc = "profile"
    /\ cookies_path /\ credentials
    /\ logged_in
    /\ Len(attempts) = 1
    /\ saves = 0

\* C12: when the authentication ends the run goes on to the profile, logged
\* in or not; a run that is not logged in has then recorded exactly one
\* warning, and no other step records one.
C12_UnauthenticatedFallback ==
    [][/\ (pc = "check" /\ pc' # "check") =>
            /\ pc' = "profile"
            /\ warnings' = IF logged_in THEN 0 ELSE 1
       /\ (pc # "check" /\ warnings' # warnings) => warnings' = 0]_vars

\* C12 witness: the three strategies of scrape_profile failed, one warning is
\* recorded and the run is at the navigation to the profile.
C12_Witness ==
    /\ pc = "profile"
    /\ ~logged_in
    /\ Len(attempts) = 3
    /\ \A i \in 1..3 : ~attempts[i].result
    /\ warnings = 1

\* C12, second scene: a run that is not logged in has listed the boards and
\* processed one.
C12_WitnessCollecting ==
    /\ pc = "boards"
    /\ ~logged_in
    /\ credentials
    /\ \E i \in 1..Len(board_log) : board_log[i] = "ok"

\* ----------------------------------------- claims on the Pinterest run

AllBoardsFailed ==
    /\ pc = "boards"
    /\ bidx > Len(boards)
    /\ boards # <<>>
    /\ \A i \in 1..Len(board_log) : board_log[i] = "fault"

C17_WitnessProfile ==
    /\ AllBoardsFailed
    /\ program = "scrape_pinterest_images"
    /\ Len(boards) = 2

\* The state of the target in the terms of the state machine.
PhaseOf(p, o) ==
    CASE p = "idle" /\ o = "none" -> "NotStarted"
      [] p = "idle" /\ o = "completed" -> "Completed"
      [] p = "idle" /\ o = "failed" -> "Failed"
      [] p \in {"cookies", "google", "login", "save", "check"} -> "Authenticating"
      [] p = "profile" -> "Collecting"
      [] p = "boards" -> "Items"

C19_WitnessListingFault ==
    /\ pc = "idle"
    /\ outcome = "failed"
    /\ pinterest_profiles # <<>>
    /\ pinterest_boards = <<>>

\* ------------------------------------ claims on the statistics of a run

\* C16: in a scrape_behance run in which every item either failed its
\* extraction or was collected with exactly one image that was fetched, the
\* stats count the collected items as projects_scraped and as
\* images_downloaded, and the failed items as errors.
C16_RunStatistics ==
    (run = "cron" /\ ~scene.off) =>
        stats = [projects_scraped |-> scene.good,
                 images_downloaded |-> scene.good,
                 errors |-> faults]

\* C16 witness: the listings are through, three items were processed, one of
\* them failed its extraction: 2/2/1.
C16_Witness ==
    /\ run = "cron" /\ LoopDone /\ targets = 0
    /\ ~scene.off
    /\ scene.good = 2
    /\ faults = 1
    /\ stats.errors = 1

\* C16, second scene: three items, all collected: 3/3/0.
C16_WitnessHappyPath ==
    /\ run = "cron" /\ LoopDone /\ targets = 0
    /\ ~scene.off
    /\ scene.good = 3
    /\ stats = [projects_scraped |-> 3, images_downloaded |-> 3, errors |-> 0]

NotLess(st1, st2) == \A k \in DOMAIN st1 : st1[k] <= st2[k]

\* C18: the stats of a scrape_behance run start with every counter at 0, and
\* no step of the run decreases a counter.
C18_StatsMonotone ==
    [][/\ (run = "none" /\ run' = "cron") => \A k \in DOMAIN stats' : stats'[k] = 0
       /\ (run = "cron" /\ run' = "cron") => NotLess(stats, stats')]_vars

\* C18 witness: a run has counted an item, then an error.
C18_Witness ==
    /\ run = "cron"
    /\ item_log = <<"ok", "fault">>
    /\ stats.projects_scraped = 1
    /\ stats.errors = 1

\* C18 for scrape_pinterest and scrape_profile: the stats start with every
\* counter at 0, and no step of the run decreases a counter.
C18_PinterestStatsMonotone ==
    [][/\ (pc = "idle" /\ pc' # "idle") =>
            \A k \in DOMAIN pinterest_stats' : pinterest_stats'[k] = 0
       /\ (pc # "idle" /\ pc' # "idle") => NotLess(pinterest_stats, pinterest_stats')]_vars

\* Scene of C18 for scrape_pinterest: a board was counted, then an error.
C18_WitnessPinterest ==
    /\ pc = "boards"
    /\ board_log = <<"ok", "fault">>
    /\ pinterest_stats.boards_scraped = 1
    /\ pinterest_stats.errors = 1

\* C17 for scrape_behance: after a first listing all of whose items failed,
\* the stats count the items as errors and nothing else.
C17_CronBehance ==
    (/\ run = "cron" /\ targets = CronUrls - 1 /\ LoopDone
     /\ project_links # <<>>
     /\ \A i \in 1..Len(item_log) : item_log[i] = "fault")
        => stats = [projects_scraped |-> 0, images_downloaded |-> 0,
                    errors |-> Len(project_links)]

\* ------------------------------------------- claims on the steps of an item

\* Every occurrence of step a in the completed steps is before every
\* occurrence of step b.
Before(a, b) ==
    \A i, j \in 1..Len(item_call.done) :
        (item_call.done[i] = a /\ item_call.done[j] = b) => i < j

Recorded == \E i \in 1..Len(projects) : projects[i].id = item_call.url.gallery

MetadataWritten ==
    \E i \in 1..Len(images) : images[i].project_id = item_call.url.gallery

C20_WitnessBeforeFetch ==
    /\ item_call.pc = "download_many"
    /\ Recorded
    /\ MetadataWritten

\* -------------------------------- claims on the targets and their listings

\* C21: a search URL of scrape_behance whose listing raises is counted as
\* one error and nothing else of the stats changes; the loop goes on with the
\* next search URL, and the call returns its stats after the last one.
C21_TargetIsolation ==
    [][/\ (run = "cron" /\ run' = "cron" /\ targets' # targets) =>
            /\ targets' = targets - 1
            /\ stats' = IF faults' = faults THEN stats
                        ELSE [stats EXCEPT !.errors = @ + 1]
       /\ (run = "cron" /\ run' = "none") => (targets = 0 /\ last' = "returned")]_vars

\* C21 witness: the listing of the first search URL has raised, one error is
\* counted and the second search URL is still to come.
C21_Witness ==
    /\ run = "cron"
    /\ targets = CronUrls - 1
    /\ project_links = <<>>
    /\ faults = 1
    /\ stats.errors = 1

\* C21, second scene: a run with one error and one project scraped from the
\* last search URL is about to return.
C21_WitnessAfterFault ==
    /\ run = "cron" /\ targets = 0 /\ LoopDone
    /\ scene.off
    /\ item_log = <<"ok">>
    /\ stats = [projects_scraped |-> 1, images_downloaded |-> 1, errors |-> 1]

\* C25 as stated: a link whose processing has raised is in processed_projects.
C25_FaultedItemsSeen ==
    run = "behance" =>
        \A i \in 1..Len(item_log) :
            item_log[i] = "fault" => project_links[i] \in processed_projects

\* C26 as stated: when a collection call has skipped a link and so processed
\* fewer than max_projects links, the listing holds no further link that is
\* not in processed_projects.
C26_LimitCountsAccepted ==
    (/\ run = "behance" /\ LoopDone
     /\ \E i \in 1..Len(item_log) : item_log[i] = "skipped")
        => \A j \in 1..Len(rest) : rest[j] \in processed_projects

\* The first max_projects links of the listing are taken, whatever
\* processed_projects holds: at most max_projects links are processed.
C26_AtMostLimit ==
    run = "behance" =>
        /\ Len(item_log) <= Len(project_links)
        /\ rest # <<>> => Len(project_links) \in 1..MaxLinks

\* extract_project_links keeps the order of the anchors of the page.
ListingKeepsOrder ==
    \A hrefs \in SeqsUpTo(Hrefs, MaxLinks) :
        LET links == extract_project_links(hrefs)
        IN  \E pos \in [1..Len(links) -> 1..Len(hrefs)] :
                /\ \A i, j \in 1..Len(links) : i < j => pos[i] < pos[j]
                /\ \A i \in 1..Len(links) : links[i] = full_url(hrefs[pos[i]])

\* C27: the listing is in the order of the page; every step of a per-item
\* loop handles the link at the loop position and moves the position on by
\* one: only that link enters processed_projects, and only the project of
\* that link is written.
C27_ProcessingOrder ==
    /\ []ListingKeepsOrder
    /\ [][(run # "none" /\ run' = run /\ targets' = targets) =>
            /\ project_links' = project_links
            /\ idx' = idx + 1
            /\ Len(item_log') = idx
            /\ processed_projects' \subseteq processed_projects \cup {project_links[idx]}
            /\ (run = "behance" /\ item_log'[idx] = "ok")
                  => project_links[idx] \in processed_projects'
            /\ \A j \in 1..Len(projects') :
                  (j > Len(projects) \/ projects'[j] # projects[j])
                      => projects'[j].id = project_links[idx].gallery]_vars

\* C27 witness: a call has processed the two links of its listing, to two
\* projects.
C27_Witness ==
    /\ run = "behance" /\ LoopDone
    /\ Len(project_links) = 2
    /\ project_links[1].gallery # project_links[2].gallery
    /\ item_log = <<"ok", "ok">>

\* ------------------------------------------ claims on the processed set

\* C33: a link enters processed_projects only with the return of its
\* scrape_project, so the record of every link of the set is in the store,
\* with the image metadata of the last visit if the page showed images; and
\* the set only grows.
C33_ProcessedImpliesPersisted ==
    /\ [](\A url \in processed_projects :
            \E i \in 1..Len(projects) : projects[i].id = url.gallery)
    /\ [][/\ processed_projects \subseteq processed_projects'
          /\ \A url \in processed_projects' \ processed_projects :
                /\ ~LoopDone
                /\ url = project_links[idx]
                /\ item_log' = Append(item_log, "ok")
                /\ \E i \in 1..Len(projects') : projects'[i].id = url.gallery]_vars

\* C33 witness: a call has processed one link and met a fault at the other;
\* the set holds the first only.
C33_Witness ==
    /\ run = "behance"
    /\ item_log = <<"ok", "fault">>
    /\ processed_projects = {project_links[1]}
    /\ project_links[2] \notin processed_projects

\* C33, inside scrape_project: a call that has returned has written the
\* record, and has written the image metadata and awaited download_many if
\* the page showed images.
C33_ReturnedMeansWritten ==
    item_call.pc = "returned" =>
        /\ Recorded
        /\ \E i \in 1..Len(item_call.done) : item_call.done[i] = "upsert"
        /\ item_call.imgs # <<>> =>
              /\ MetadataWritten
              /\ item_call.done[Len(item_call.done)] = "download_many"

\* C33, for the boards of scrape_profile: the record of every board of
\* processed_boards is in the store.
C33_BoardsPersisted ==
    \A board \in processed_boards :
        \E i \in 1..Len(pinterest_boards) : pinterest_boards[i] = board_dump(board)

\* --------------------------------------- claims on the counts of a run

\* C34 as stated: every item whose step ended without a fault is counted in
\* projects_scraped, so projects_scraped plus the item errors is the number
\* of items processed, and projects_scraped is the number of records written
\* in this run.
C34_EveryItemCounted ==
    run = "cron" =>
        /\ stats.projects_scraped + tally.item_faults = tally.items
        /\ stats.projects_scraped = tally.writes

\* C34, amended: an item is counted once in projects_scraped when its step
\* ended without a fault on a page that showed images, once in errors when
\* its step raised, and not at all when its step ended without a fault on a
\* page without images; errors also counts the search URLs that raised.  The
\* records written in the run are at least the items counted in
\* projects_scraped and those without images, and at most the items.
C34_CountedWithImages ==
    run = "cron" =>
        /\ stats.projects_scraped + tally.item_faults + tally.empty = tally.items
        /\ stats.errors = faults
        /\ faults >= tally.item_faults
        /\ stats.projects_scraped + tally.empty <= tally.writes
        /\ tally.writes <= tally.items

\* C34 witness: a run at its return with one item counted, one without
\* images, and one that raised after its record was written.
C34_Witness ==
    /\ run = "cron" /\ targets = 0 /\ LoopDone
    /\ tally = [items |-> 3, item_faults |-> 1, empty |-> 1, writes |-> 3]
    /\ stats.projects_scraped = 1
    /\ stats.errors = 1

\* ------------------------------------------------- claims on the upsert

\* C28: after upsert(r) the first document with r's id is the full body of
\* r, whatever an earlier upsert or save wrote under that id, and every other
\* document is as it was before.
C28_LastWriteWins ==
    (repo_hist # <<>> /\ repo_hist[Len(repo_hist)][1] = "upsert") =>
        LET r == repo_hist[Len(repo_hist)][2]
            m == Matching(projects, "id", r.id)
        IN  /\ m # {}
            /\ projects[Min(m)] = model_dump(r)
            /\ Len(projects) = IF Matching(repo_before, "id", r.id) = {}
                               THEN Len(repo_before) + 1 ELSE Len(repo_before)
            /\ \A i \in 1..Len(repo_before) : i # Min(m) => projects[i] = repo_before[i]

\* C28 witness: two upserts under one id with different bodies, the second
\* applied to a collection that holds a document of another id as well.
C28_Witness ==
    /\ Len(repo_hist) = 2
    /\ repo_hist[1][1] = "upsert" /\ repo_hist[2][1] = "upsert"
    /\ repo_hist[1][2].id = repo_hist[2][2].id
    /\ repo_hist[1][2].title # repo_hist[2][2].title
    /\ \E i \in 1..Len(projects) : projects[i].id # repo_hist[2][2].id
    /\ Cardinality(Matching(projects, "id", repo_hist[2][2].id)) = 1

\* ---------------------------------------------- claims on the fetch barrier

\* C29: when download_many has returned, every fetch of the call has
\* completed, and a call of download_many starts only when no fetch of an
\* earlier call is in flight.
C29_FanOutBarrier ==
    /\ [](phase \in {"returned", "raised"} =>
            \A i \in 1..Len(task) : task[i].pc = "done")
    /\ [][(phase # "running" /\ phase' = "running") =>
            \A i \in 1..Len(task) : task[i].pc = "done"]_vars

\* C29 witness: two fetches of one call are in flight together, both between
\* their response and their file.
C29_Witness ==
    /\ phase = "running"
    /\ Len(task) = 2
    /\ task[1].pc = "saving" /\ task[2].pc = "saving"

\* C29, second scene: the call has returned after its two fetches, the
\* second of which completed first.
C29_WitnessReturned ==
    /\ phase = "returned"
    /\ order = <<2, 1>>

\* ------------------------------------------ claims on the fetch, one by one

\* C32: within one download_many call every reference of the input causes at
\* most one request; a fetch that failed is over, its result a failure, and
\* nothing of it changes until the call returns.
C32_NoRetry ==
    /\ [](\A i \in 1..Len(task) :
            /\ task[i].requests <= 1
            /\ task[i].fault # None =>
                  /\ task[i].pc = "done"
                  /\ task[i].result.exc = None
                  /\ task[i].result.value.success = FALSE)
    /\ [][\A i \in 1..Len(task) :
            (task[i].pc = "done" /\ phase = "running" /\ phase' = "running")
                => task'[i] = task[i]]_vars

\* C32 witness: a call has returned a failure for a reference that was
\* requested once, next to a success.
C32_Witness ==
    /\ phase = "returned"
    /\ \E i, j \in 1..Len(returned) :
          /\ ~returned[i].success
          /\ task[i].requests = 1
          /\ task[i].fault \in {"ConnectError", "HTTPStatusError"}
          /\ returned[j].success

\* C35: a fetch that fails at its request or at the status check leaves
\* every file as it was: it creates none and changes none.
C35_FailedFetchKeepsFiles ==
    [][(phase = "running" /\ phase' = "running") =>
          \A i \in 1..Len(task) :
              (task[i].pc = "requesting" /\ task'[i].pc = "done") => files' = files]_vars

\* C35 witness: the only fetch of a call has failed at its request, and the
\* file an earlier call stored at its path is as that call left it.
C35_Witness ==
    /\ Len(task) = 1
    /\ task[1].pc = "done"
    /\ task[1].fault \in {"ConnectError", "HTTPStatusError"}
    /\ task[1].path \in DOMAIN files
    /\ files[task[1].path] = <<urls[1]>>

\* C36: every result of download_image and of download_many has a
\* local_path exactly when it is a success and an error_message exactly when
\* it is a failure; the local_path of a success is the output directory
\* joined with the file name derived from the URL of that result.
C36_OutcomeWellFormed ==
    LET WellFormed(r) ==
            /\ r.success <=> r.local_path # NoPath
            /\ ~r.success <=> r.error_message # None
            /\ r.success => r.local_path = <<output_dir, generate_filename(r.url)>>
    IN  /\ \A i \in 1..Len(task) :
              (task[i].pc = "done" /\ task[i].result.exc = None)
                  => (WellFormed(task[i].result.value) /\ task[i].result.value.url = urls[i])
        /\ \A i \in 1..Len(returned) : WellFormed(returned[i]) /\ returned[i].url = urls[i]

\* C36 witness: a call has returned a success and a failure for two
\* different references.
C36_Witness ==
    /\ phase = "returned"
    /\ Len(returned) = 2
    /\ urls[1] # urls[2]
    /\ returned[1].success /\ returned[1].local_path = local_path_of(output_dir, urls[1])
    /\ ~returned[2].success /\ returned[2].error_message = "HTTPStatusError"

Found(e) == e.result \in {"clicked", "click_fault"}

\* The form was submitted: by a click that returned or by Enter.
Submitted(e) == e.result \in {"clicked", "enter"}

\* C30 as stated: within a step nothing follows a selector that was found,
\* and Enter is pressed only when no selector was found.
C30_FirstFoundEndsLoop ==
    \A i, j \in 1..Len(form.trace) :
        (i < j /\ form.trace[i].step = form.trace[j].step) => ~Found(form.trace[i])

\* C30, amended: within a step the selectors are tried in their listed
\* order; nothing follows the submission of the step, by a click that
\* returned or by Enter; Enter is pressed only after every selector has timed
\* out or raised at its click; and the secret step begins only after the
\* identifier step is submitted.
C30_SubmitFallback ==
    \A j \in 1..Len(form.trace) :
        LET e == form.trace[j]
            earlier == {i \in 1..(j - 1) : form.trace[i].step = e.step}
            tried == {i \in earlier : form.trace[i].sel > 0}
        IN  /\ \A i \in earlier : ~Submitted(form.trace[i])
            /\ e.sel > 0 => e.sel = Cardinality(tried) + 1
            /\ e.result \in {"enter", "enter_fault"} => Cardinality(tried) = Selectors
            /\ e.step = "secret" =>
                  \E i \in 1..(j - 1) :
                      form.trace[i].step = "identifier" /\ Submitted(form.trace[i])

\* C30 witness: the identifier step was submitted by the third selector
\* after two timeouts, the secret step by Enter after no selector was found.
C30_Witness ==
    /\ form.pc = "submitted"
    /\ Len(form.trace) = 10
    /\ form.trace[4] = Event("identifier", 3, "clicked")
    /\ form.trace[5] = Event("secret", 0, "filled")
    /\ form.trace[10] = Event("secret", 0, "enter")
    /\ \A i \in 6..9 : form.trace[i].result = "timeout"

\* C30, second scene: the click on the first selector found has raised and
\* the second selector was clicked.
C30_WitnessClickFault ==
    /\ form.pc = "password"
    /\ Len(form.trace) = 3
    /\ form.trace[2] = Event("identifier", 1, "click_fault")
    /\ form.trace[3] = Event("identifier", 2, "clicked")

\* ----------------------------------- claims on the surface of the sign-in

\* C31: once the Google button is clicked, the credentials go to the page
\* itself if its URL shows the identity provider, else to the popup if the
\* context holds another page; what is done at the form does not depend on
\* which of the two it is; with neither, or without the button, the strategy
\* ends without anything entered.
C31_SurfaceDetection ==
    /\ [](/\ form.surface = "page" <=> (form.button = "clicked" /\ form.provider)
          /\ form.surface = "popup" <=>
                (form.button = "clicked" /\ ~form.provider /\ form.pages > 1)
          /\ form.trace # <<>> => form.surface \in {"page", "popup"}
          /\ (form.button \in {"missing", "click_fault"}
                \/ (form.button = "clicked" /\ form.surface = "none"))
                => (form.pc = "failed" /\ form.trace = <<>>))
    /\ [][form'.surface # form.surface => form.pc = "click"]_vars

\* C31 witness: the credentials were entered in a popup.
C31_Witness ==
    /\ form.surface = "popup"
    /\ form.pc = "submitted"

\* C31, second scene: the page itself went to the identity provider while
\* the context held another page, and the credentials were entered on the
\* page.
C31_WitnessSamePage ==
    /\ form.surface = "page"
    /\ form.pages > 1
    /\ form.pc = "submitted"

\* C31, third scene: neither a redirect nor a popup.
C31_WitnessNeither ==
    /\ form.button = "clicked"
    /\ form.surface = "none"
    /\ form.pc = "failed"

\* ------------------------------------------------ claims on the entry points

\* C22: the process exits with status 0 if and only if the run completed
\* without a setup-level fatal fault, and with a non-zero status if the store
\* or the browser could not be acquired; per-item errors never change the
\* exit status.  For a process that was not interrupted: the status is 0
\* exactly when no setup fault occurred.
C22_ExitStatus ==
    (proc.pc = "exited" /\ proc.program # "none" /\ ~proc.interrupted)
        => (proc.status = 0 <=> ~proc.setup_fault)

\* C22, the part the scripts keep: a script that met a setup fault leaves with
\* status 1, and errors of items never change the status of any program.
C22_ScriptsSetupFault ==
    (proc.pc = "exited" /\ proc.program \in {"scrape_behance", "scrape_pinterest_images"}
       /\ proc.setup_fault /\ ~proc.interrupted)
        => proc.status = 1

C22_ItemErrorsKeepStatus ==
    [][(proc.pc = "item" /\ proc'.pc = "loop") => proc'.status = proc.status]_vars

\* C22: cron_scraper has left with status 0 although the store or the browser
\* of one of its scrapers could not be acquired.
C22_CronExitsZero ==
    /\ proc.program = "cron_scraper"
    /\ proc.pc = "exited"
    /\ proc.setup_fault
    /\ ~proc.interrupted
    /\ proc.status = 0

\* C21, at the level of CronScraper.run: a scraper that raised leaves its
\* error in the results and the other scraper still runs.
C21_RunKeepsOtherScraper ==
    (proc.program = "cron_scraper" /\ proc.pc = "exited" /\ ~proc.interrupted)
        => Len(proc.results) = 2

\* C38: on every way out of a run that has connected the store client or
\* launched the browser, both are released before the run function returns
\* or raises: no scraper that is over has left a resource open, and none is
\* open when the process has left.
C38_ReleasedOnEveryExit ==
    /\ proc.left_open = {}
    /\ proc.pc = "exited" => proc.open = {}

\* C38: scrape_behance of cron_scraper is over, after a launch of the browser
\* that raised, and its store client is still connected.
C38_CronStoreLeftOpen ==
    /\ proc.program = "cron_scraper"
    /\ <<"behance", "store">> \in proc.left_open
    /\ proc.stage = 2

\* C38, the part that holds: the scripts release what they opened on every
\* way out, and a scraper of cron_scraper that has entered its try block
\* releases what it opened when it leaves.
C38_ScriptsRelease ==
    /\ proc.program \in {"scrape_behance", "scrape_pinterest_images"} =>
          /\ proc.left_open = {}
          /\ proc.pc = "exited" => proc.open = {}
    /\ (proc.program = "cron_scraper" /\ proc.pc \in {"setup", "summary", "exited"})
          => proc.open = {}

\* C23: when an interrupt arrives while an item is being processed, the item
\* finishes, the loop exits without starting another item, and the statistics
\* accumulated so far are reported.
C23_ItemBoundary ==
    (proc.pc = "exited" /\ proc.interrupted)
        => (proc.finished = proc.started /\ proc.reported)

\* C23: an interrupted script has left with an item started and not finished
\* and without its summary.
C23_ItemAbandoned ==
    /\ proc.program \in {"scrape_behance", "scrape_pinterest_images"}
    /\ proc.pc = "exited"
    /\ proc.interrupted
    /\ proc.finished < proc.started
    /\ ~proc.reported

\* ------------------------------------------------ claims on the scroll loops

\* C24: a collection over a listing, growing or not, issues no more scroll
\* advances than the fixed count of its caller, and then ends: the call
\* returns (or raises) and the listing is read as it is, with no further
\* advance for that call.
C24_ExhaustionTermination ==
    /\ [](/\ scroller.advances <= ScrollCount(scroller.caller)
          /\ scroller.clicks <= scroller.advances
          /\ scroller.pc = "done" =>
                scroller.advances \in {0, ScrollCount(scroller.caller)})
    /\ [][scroller'.advances > scroller.advances
             => (scroller.pc = "scrolling" /\ scroller.i < ScrollCount(scroller.caller))]_vars
    /\ (scroller.pc = "scrolling") ~> (scroller.pc \in {"done", "raised"})

\* C24: search_projects has returned from its three scrolls over a listing
\* that never grew.
C24_Witness ==
    /\ scroller.pc = "done"
    /\ scroller.caller = "search_projects"
    /\ scroller.items = scroller.first
    /\ scroller.advances = 3

\* C24: a call has returned after the listing grew with its last scroll.
C24_WitnessGrowing ==
    /\ scroller.pc = "done"
    /\ scroller.grew
    /\ scroller.items > scroller.first

====
